---- MODULE Spec2Model ----
(***************************************************************************)
(* Model of the inspection core of hnmwt/cc: the filter Pipeline, the      *)
(* detectors' detect() entry points and the InspectionController, plus     *)
(* the two network front ends that call inspect() from their own io        *)
(* threads.                                                                *)
(*                                                                         *)
(* Numbers: confidences, circularity and straightness are percentages      *)
(* (0..100 for 0.0..1.0); times are clock ticks.  An image is one row of   *)
(* pixels, each pixel a tuple of channel values, plus the identity of the  *)
(* buffer that holds them (cv::Mat shares its buffer on copy, clone()      *)
(* allocates a new one).                                                   *)
(***************************************************************************)
EXTENDS Integers, Sequences, FiniteSets, TLC

VARIABLES
    filters,               \* Pipeline::filters_
    nextFilterId,          \* identity of the next filter object constructed
    pipeOut,               \* what the last Pipeline::process* call returned
    detectors,             \* InspectionController::detectors_
    maxAllowedDefects_,    \* InspectionController::maxAllowedDefects_
    minDefectConfidence_,  \* InspectionController::minDefectConfidence_
    visualizationEnabled_, \* InspectionController::visualizationEnabled_
    totalInspections_,     \* InspectionController::totalInspections_
    totalDefectsFound_,    \* InspectionController::totalDefectsFound_
    totalNGCount_,         \* InspectionController::totalNGCount_
    totalProcessingTime_,  \* InspectionController::totalProcessingTime_
    lastCall,              \* the last inspect() call: its result and what it ran
    pc,                    \* position of each io thread inside its handler
    frame,                 \* locals of each io thread's inspect() call
    obj,                   \* one filter or detector object used on its own
    copy,                  \* what obj.clone() returned, once taken
    lastOp,                \* the last call made on obj or copy, and obj before it
    heap,                  \* pixel buffers held by the cv::Mat members of obj and copy
    defectList,            \* a Defects list handed to defectsToJson
    document,              \* the json defectsToJson returned
    restored,              \* the Defects defectsFromJson returned
    inbox,                 \* trigger session: request lines received, not yet read
    sent,                  \* trigger session: number of requests the client has sent
    pending,               \* trigger session: async_write operations not yet complete
    wire,                  \* trigger session: what the socket has carried to the client
    handler,               \* ExternalTriggerHandler: running_ and its counters
    sessions,              \* ExternalTriggerHandler: the Session objects alive
    api,                   \* RestApiServer: its request counters
    inspectionHistory_,    \* RestApiServer::inspectionHistory_
    restOut,               \* RestApiServer: the last request and the response to it
    server,                \* InspectionServer: running_ and its two listeners
    fnIn,                  \* the input of a function called on its own
    fnOut                  \* what that function returned

pipeVars == <<filters, nextFilterId, pipeOut>>
ctlVars == <<detectors, maxAllowedDefects_, minDefectConfidence_, visualizationEnabled_,
             lastCall>>
statVars == <<totalInspections_, totalDefectsFound_, totalNGCount_, totalProcessingTime_>>
thrVars == <<pc, frame>>
objVars == <<obj, copy, lastOp, heap>>
jsonVars == <<defectList, document, restored>>
sessVars == <<inbox, sent, pending, wire>>
trigVars == <<handler, sessions>>
restVars == <<api, inspectionHistory_, restOut>>
srvVars == <<trigVars, restVars, server>>
fnVars == <<fnIn, fnOut>>
vars == <<filters, nextFilterId, pipeOut, detectors, maxAllowedDefects_,
          minDefectConfidence_, visualizationEnabled_, totalInspections_,
          totalDefectsFound_, totalNGCount_, totalProcessingTime_, lastCall, pc, frame,
          obj, copy, lastOp, heap, defectList, document, restored, inbox, sent, pending,
          wire, handler, sessions, api, inspectionHistory_, restOut, server, fnIn,
          fnOut>>

(***************************************************************************)
(* Bounds                                                                  *)
(***************************************************************************)
MaxFilters == 3
MaxFilterObjects == 4
MaxTick == 2

Ticks == 1..MaxTick

(***************************************************************************)
(* Images                                                                  *)
(***************************************************************************)
NoBuffer == 0
CallerBuffer == 1

\* cv::Mat(): no pixels, no buffer
EmptyMat == [ch |-> 0, px |-> <<>>, buf |-> NoBuffer]

Mat(ch, px, buf) == [ch |-> ch, px |-> px, buf |-> buf]

\* cv::Mat::empty()
IsEmpty(m) == Len(m.px) = 0

\* cv::Mat::clone(): same pixels in the freshly allocated buffer b
CloneMat(m, b) == IF IsEmpty(m) THEN EmptyMat ELSE [m EXCEPT !.buf = b]

\* images a caller can hand in: gray, 2-channel, BGR colour
GrayImage == Mat(1, << <<40>>, <<200>>, <<90>> >>, CallerBuffer)
TwoChannelImage == Mat(2, << <<40, 10>>, <<200, 20>>, <<90, 30>> >>, CallerBuffer)
ColorImage == Mat(3, << <<10, 40, 250>>, <<200, 200, 200>>, <<90, 0, 30>> >>, CallerBuffer)
InputImages == {EmptyMat, GrayImage, TwoChannelImage, ColorImage}

Min2(a, b) == IF a < b THEN a ELSE b
Max2(a, b) == IF a > b THEN a ELSE b

RECURSIVE SumSeq(_)
SumSeq(s) == IF Len(s) = 0 THEN 0 ELSE Head(s) + SumSeq(Tail(s))

RECURSIVE Flatten(_)
Flatten(ss) == IF Len(ss) = 0 THEN <<>> ELSE Head(ss) \o Flatten(Tail(ss))

(***************************************************************************)
(* OpenCV calls made by the filters.  Each returns                         *)
(* [st |-> "ok", px |-> pixels, ch |-> channels] or [st |-> "throw"].      *)
(***************************************************************************)
CvThrow == [st |-> "throw", ch |-> 0, px |-> <<>>]
CvOk(ch, px) == [st |-> "ok", ch |-> ch, px |-> px]

\* cv::cvtColor(COLOR_BGR2GRAY): needs 3 (or 4) channels, BGR weights
cvtColorBGR2GRAY(m) ==
    IF m.ch < 3 THEN CvThrow
    ELSE CvOk(1, [i \in 1..Len(m.px) |->
            << (114 * m.px[i][1] + 587 * m.px[i][2] + 299 * m.px[i][3] + 500) \div 1000 >>])

\* cv::GaussianBlur along the row, border reflected (BORDER_REFLECT_101);
\* kernel 1 copies, a wider kernel weighs the neighbours 1-2-1
GaussianBlur(m, ksize) ==
    LET n == Len(m.px)
        at(i) == IF i < 1 THEN m.px[Min2(2, n)] ELSE IF i > n THEN m.px[Max2(n - 1, 1)] ELSE m.px[i]
    IN  IF ksize = 1 THEN CvOk(m.ch, m.px)
        ELSE CvOk(m.ch, [i \in 1..n |->
                [c \in 1..m.ch |-> (at(i - 1)[c] + 2 * at(i)[c] + at(i + 1)[c] + 2) \div 4]])

\* cv::threshold(THRESH_BINARY)
thresholdBinary(m, thresh, maxValue) ==
    CvOk(m.ch, [i \in 1..Len(m.px) |->
            [c \in 1..m.ch |-> IF m.px[i][c] > thresh THEN maxValue ELSE 0]])

\* Otsu's level of a single-channel row: the split with the largest
\* between-class variance (lowest such level)
OtsuLevel(m) ==
    LET vals == {m.px[i][1] : i \in 1..Len(m.px)}
        lo(t) == {i \in 1..Len(m.px) : m.px[i][1] <= t}
        hi(t) == {i \in 1..Len(m.px) : m.px[i][1] > t}
        RECURSIVE SumOver(_)
        SumOver(S) == IF S = {} THEN 0
                      ELSE LET i == CHOOSE j \in S : TRUE IN m.px[i][1] + SumOver(S \ {i})
        \* w0*w1*(m0-m1)^2 scaled by (w0*w1)
        score(t) == IF lo(t) = {} \/ hi(t) = {} THEN 0
                    ELSE LET d == SumOver(lo(t)) * Cardinality(hi(t))
                                  - SumOver(hi(t)) * Cardinality(lo(t))
                         IN (d * d) \div (Cardinality(lo(t)) * Cardinality(hi(t)))
        best == CHOOSE t \in vals : \A u \in vals : score(u) <= score(t)
    IN  CHOOSE t \in vals : score(t) = score(best) /\ \A u \in vals : score(u) = score(best) => t <= u

\* cv::threshold(THRESH_BINARY | THRESH_OTSU): 8-bit single channel only
thresholdOtsu(m, maxValue) ==
    IF m.ch # 1 THEN CvThrow ELSE thresholdBinary(m, OtsuLevel(m), maxValue)

(***************************************************************************)
(* Filters                                                                 *)
(***************************************************************************)
\* FilterBase objects: enabled_ starts true
GrayscaleFilter(id) ==
    [id |-> id, type |-> "grayscale", enabled |-> TRUE,
     kernelSize |-> 0, sigma |-> 0, method |-> "none", threshold |-> 0, maxValue |-> 0]

\* GaussianFilter::isValidKernelSize with the parity test left out
isValidKernelSize_AnyPositive(size) == size > 0

\* GaussianFilter::isValidKernelSize
isValidKernelSize(size) == size > 0 /\ size % 2 = 1

\* GaussianFilter::GaussianFilter(kernelSize, sigma); sigma in tenths
GaussianFilterSigma(id, kernelSize, sigma) ==
    [id |-> id, type |-> "gaussian_blur", enabled |-> TRUE,
     kernelSize |-> IF isValidKernelSize(kernelSize) THEN kernelSize ELSE 5,
     sigma |-> IF sigma < 0 THEN 10 ELSE sigma,
     method |-> "none", threshold |-> 0, maxValue |-> 0]

\* GaussianFilter(kernelSize) with the default sigma = 1.0
GaussianFilter(id, kernelSize) == GaussianFilterSigma(id, kernelSize, 10)

ThresholdFilter(id, threshold, method, maxValue) ==
    [id |-> id, type |-> "threshold", enabled |-> TRUE,
     kernelSize |-> 0, sigma |-> 0, method |-> method, threshold |-> threshold,
     maxValue |-> maxValue]

\* the filter objects a caller constructs and hands to addFilter
NewFilters(id) ==
    {GrayscaleFilter(id), GaussianFilter(id, 3),
     ThresholdFilter(id, 128, "binary", 255), ThresholdFilter(id, 128, "otsu", 255)}

getName(f) ==
    CASE f.type = "grayscale" -> "Grayscale Filter"
      [] f.type = "gaussian_blur" -> "Gaussian Blur Filter"
      [] OTHER -> "Threshold Filter"

\* What filter->process(input) gives: [st |-> "ok", img |-> returned image]
\* or [st |-> "throw"] when an exception leaves process().  b is the buffer
\* a new output image is allocated in.
FilterReturn(img) == [st |-> "ok", img |-> img]
FilterThrow == [st |-> "throw", img |-> EmptyMat]

GrayscaleFilter_process(input, b) ==
    IF IsEmpty(input) THEN FilterReturn(EmptyMat)
    ELSE IF input.ch = 1 THEN FilterReturn(CloneMat(input, b))
    ELSE LET r == cvtColorBGR2GRAY(input)
         IN  IF r.st = "throw" THEN FilterReturn(EmptyMat)
             ELSE FilterReturn(Mat(r.ch, r.px, b))

GaussianFilter_process(f, input, b) ==
    IF IsEmpty(input) THEN FilterReturn(EmptyMat)
    ELSE LET r == GaussianBlur(input, f.kernelSize)
         IN  IF r.st = "throw" THEN FilterReturn(EmptyMat)
             ELSE FilterReturn(Mat(r.ch, r.px, b))

ThresholdFilter_process(f, input, b) ==
    IF IsEmpty(input) THEN FilterReturn(input)
    ELSE LET g == IF input.ch = 3 THEN cvtColorBGR2GRAY(input) ELSE CvOk(input.ch, input.px)
             gray == Mat(g.ch, g.px, b)
             r == CASE f.method = "binary" -> thresholdBinary(gray, f.threshold, f.maxValue)
                    [] f.method = "otsu" -> thresholdOtsu(gray, f.maxValue)
                    [] OTHER -> CvOk(gray.ch, gray.px)
         IN  IF r.st = "throw" THEN FilterThrow
             ELSE FilterReturn(Mat(r.ch, r.px, b + 1))

\* virtual FilterBase::process
Filter_process(f, input, b) ==
    CASE f.type = "grayscale" -> GrayscaleFilter_process(input, b)
      [] f.type = "gaussian_blur" -> GaussianFilter_process(f, input, b)
      [] OTHER -> ThresholdFilter_process(f, input, b)

(***************************************************************************)
(* Pipeline                                                                *)
(***************************************************************************)
\* one entry of the record of filter->process calls a Pipeline call made
Applied(f, input, r) == [id |-> f.id, input |-> input, st |-> r.st, output |-> r.img]

\* the loop of Pipeline::process over filters_[i..], current image cur,
\* nb the next free buffer, log the process calls made so far
RECURSIVE ProcessLoop(_, _, _, _, _)
\* one pass of the loop body, r being what filters_[i]->process returned or
\* threw
ProcessStep(fs, i, cur, nb, log, r) ==
    IF r.st = "throw" \/ IsEmpty(r.img)
    THEN [image |-> EmptyMat, applied |-> Append(log, Applied(fs[i], cur, r))]
    ELSE ProcessLoop(fs, i + 1, r.img, nb + 2, Append(log, Applied(fs[i], cur, r)))

\* the loop of Pipeline::process without the isEnabled() test
ProcessLoop_NoSkip(fs, i, cur, nb, log) ==
    IF i > Len(fs) THEN [image |-> cur, applied |-> log]
    ELSE ProcessStep(fs, i, cur, nb, log, Filter_process(fs[i], cur, nb))

ProcessLoop(fs, i, cur, nb, log) ==
    IF i > Len(fs) THEN [image |-> cur, applied |-> log]
    ELSE IF ~fs[i].enabled THEN ProcessLoop(fs, i + 1, cur, nb, log)
    ELSE ProcessStep(fs, i, cur, nb, log, Filter_process(fs[i], cur, nb))

\* Pipeline::process; nb is the next free buffer
Pipeline_process(fs, input, nb) ==
    IF IsEmpty(input) THEN [image |-> EmptyMat, applied |-> <<>>]
    ELSE IF Len(fs) = 0 THEN [image |-> CloneMat(input, nb), applied |-> <<>>]
    ELSE ProcessLoop(fs, 1, input, nb, <<>>)

\* Pipeline::ProcessingResult as default-constructed
ProcessingResult ==
    [finalImage |-> EmptyMat, intermediateImages |-> <<>>, filterNames |-> <<>>,
     processingTimes |-> <<>>, totalTime |-> 0, success |-> TRUE, errorMessage |-> <<>>,
     applied |-> <<>>]

\* the loop of Pipeline::processWithIntermediates; dt is what the clock
\* measures for one stage
RECURSIVE IntermediatesLoop(_, _, _, _, _, _)
\* one pass of the loop body, r being what filters_[i]->process returned or
\* threw and res the result with that call logged
IntermediatesStep(fs, i, nb, res, dt, r) ==
    IF r.st = "throw"
    THEN [res EXCEPT !.success = FALSE,
                     !.errorMessage = <<"Exception in filter '", getName(fs[i]), "': ", "what">>]
    ELSE IF IsEmpty(r.img)
    THEN [res EXCEPT !.success = FALSE,
                     !.errorMessage = <<"Filter '", getName(fs[i]), "' produced empty output">>]
    ELSE IntermediatesLoop(fs, i + 1, r.img, nb + 3,
            [res EXCEPT !.intermediateImages = Append(@, CloneMat(r.img, nb + 2)),
                        !.filterNames = Append(@, getName(fs[i])),
                        !.processingTimes = Append(@, dt)], dt)

\* the filter->process call of pass i and its entry in the call log
IntermediatesCall(fs, i, cur, nb, res, dt, r) ==
    IntermediatesStep(fs, i, nb, [res EXCEPT !.applied = Append(@, Applied(fs[i], cur, r))], dt, r)

IntermediatesLoop(fs, i, cur, nb, res, dt) ==
    IF i > Len(fs)
    THEN [res EXCEPT !.totalTime = dt * Len(res.processingTimes), !.finalImage = cur]
    ELSE IF ~fs[i].enabled THEN IntermediatesLoop(fs, i + 1, cur, nb, res, dt)
    ELSE IntermediatesCall(fs, i, cur, nb, res, dt, Filter_process(fs[i], cur, nb))

\* Pipeline::processWithIntermediates; nb is the next free buffer
Pipeline_processWithIntermediates(fs, input, dt, nb) ==
    IF IsEmpty(input)
    THEN [ProcessingResult EXCEPT !.success = FALSE, !.errorMessage = <<"Input image is empty">>]
    ELSE IF Len(fs) = 0
    THEN [ProcessingResult EXCEPT !.finalImage = CloneMat(input, nb),
                                  !.intermediateImages = <<CloneMat(input, nb + 1)>>]
    ELSE IntermediatesLoop(fs, 1, input, nb + 1,
            [ProcessingResult EXCEPT !.intermediateImages = <<CloneMat(input, nb)>>], dt)

\* nothing returned yet / the caller dropped what it got
NoPipeOut == [op |-> "none", input |-> EmptyMat, res |-> ProcessingResult,
              index |-> 0, ret |-> FALSE]

\* what removeFilter(index) returned
RemoveReturned(index, ret) == [NoPipeOut EXCEPT !.op = "removeFilter", !.index = index, !.ret = ret]

\* Pipeline::addFilter (a null filter is ignored)
addFilter(isNull) ==
    /\ Len(filters) < MaxFilters
    /\ nextFilterId <= MaxFilterObjects
    /\ IF isNull
       THEN UNCHANGED <<filters, nextFilterId>>
       ELSE \E f \in NewFilters(nextFilterId) :
               /\ filters' = Append(filters, f)
               /\ nextFilterId' = nextFilterId + 1
    /\ pipeOut' = NoPipeOut

\* removeFilter erasing the last filter instead of the one at index
removeFilter_Last(index) ==
    /\ IF index >= Len(filters)
       THEN /\ filters' = filters
            /\ pipeOut' = RemoveReturned(index, FALSE)
       ELSE /\ filters' = SubSeq(filters, 1, Len(filters) - 1)
            /\ pipeOut' = RemoveReturned(index, TRUE)
    /\ UNCHANGED nextFilterId

\* Pipeline::removeFilter
removeFilter(index) ==
    /\ IF index >= Len(filters)
       THEN /\ filters' = filters
            /\ pipeOut' = RemoveReturned(index, FALSE)
       ELSE /\ filters' = [j \in 1..(Len(filters) - 1) |->
                               IF j <= index THEN filters[j] ELSE filters[j + 1]]
            /\ pipeOut' = RemoveReturned(index, TRUE)
    /\ UNCHANGED nextFilterId

\* Pipeline::clear
clear ==
    /\ filters' = <<>>
    /\ pipeOut' = NoPipeOut
    /\ UNCHANGED nextFilterId

\* getFilter(index)->setEnabled(enabled)
setEnabled(index, enabled) ==
    /\ index < Len(filters)
    /\ filters' = [filters EXCEPT ![index + 1].enabled = enabled]
    /\ pipeOut' = NoPipeOut
    /\ UNCHANGED nextFilterId

\* a caller runs Pipeline::process(input)
process(input) ==
    /\ LET r == Pipeline_process(filters, input, CallerBuffer + 1)
       IN  pipeOut' = [NoPipeOut EXCEPT !.op = "process", !.input = input,
                       !.res = [ProcessingResult EXCEPT !.finalImage = r.image,
                                                        !.applied = r.applied]]
    /\ UNCHANGED <<filters, nextFilterId>>

\* a caller runs Pipeline::processWithIntermediates(input)
processWithIntermediates(input) ==
    /\ \E dt \in Ticks :
          pipeOut' = [NoPipeOut EXCEPT !.op = "processWithIntermediates", !.input = input,
                      !.res = Pipeline_processWithIntermediates(filters, input, dt,
                                                                CallerBuffer + 1)]
    /\ UNCHANGED <<filters, nextFilterId>>

(***************************************************************************)
(* Detectors                                                               *)
(***************************************************************************)
\* What OpenCV reports about one region of the image (a contour of
\* findContours or a keypoint of SimpleBlobDetector): position, bounding
\* rectangle, keypoint diameter and response, contour area, circularity,
\* mean intensity inside the rectangle, arc length, straightness, gaps,
\* number of contour points, mean edge angle in degrees.
StrongRegion ==
    [x |-> 0, y |-> 0, w |-> 2, h |-> 1, size |-> 2, response |-> 80, area |-> 2,
     circ |-> 90, mean |-> 200, length |-> 3, straight |-> 95, gaps |-> 0, points |-> 4,
     angle |-> 90]
FaintRegion ==
    [x |-> 2, y |-> 0, w |-> 1, h |-> 1, size |-> 1, response |-> 0, area |-> 1,
     circ |-> 30, mean |-> 128, length |-> 2, straight |-> 20, gaps |-> 1, points |-> 3,
     angle |-> 10]

\* the region lists one detect() call may get from OpenCV
RegionLists == {<<>>, <<FaintRegion>>, <<StrongRegion, FaintRegion>>}

Rect(x, y, w, h) == [x |-> x, y |-> y, width |-> w, height |-> h]

\* Defect(type, bbox, confidence) and its fields set afterwards
Defect(type, bbox, confidence, area, circularity) ==
    [type |-> type, bbox |-> bbox, confidence |-> confidence, area |-> area,
     circularity |-> circularity]

\* DetectorBase state plus the parameters of the concrete detectors
Detector(kind, minArea, maxArea, hasRef) ==
    [kind |-> kind, enabled |-> TRUE, confidenceThreshold |-> 50, hasReference |-> hasRef,
     minArea |-> minArea, maxArea |-> maxArea, minLength |-> 1, maxLength |-> 1000,
     minEdgeAngle |-> 0, maxEdgeAngle |-> 180, angleFilterEnabled |-> FALSE,
     totalDetections |-> 0, totalTime |-> 0, debug |-> <<>>]

\* the detectors a caller constructs and hands to addDetector
NewDetectors ==
    {Detector("template", 1, 100, TRUE), Detector("feature", 1, 100, FALSE),
     Detector("blob", 50, 50000, FALSE), Detector("edge", 0, 0, FALSE)}

\* DetectorBase::recordStatistics
recordStatistics(d, numDefects, processingTime) ==
    [d EXCEPT !.totalDetections = @ + numDefects, !.totalTime = @ + processingTime]

AspectRatio100(w, h) == IF w >= h THEN (w * 100) \div h ELSE (h * 100) \div w

\* TemplateMatcher::classifyDefect
TemplateMatcher_classifyDefect(r) ==
    IF r.circ > 80 THEN "Stain"
    ELSE IF AspectRatio100(r.w, r.h) > 300 THEN "Scratch"
    ELSE IF r.circ < 50 THEN "Discoloration"
    ELSE "Deformation"

\* TemplateMatcher::findDefectRegions, the loop over the contours
RECURSIVE TemplateMatcher_findDefectRegions(_, _)
TemplateMatcher_findDefectRegions(d, regions) ==
    IF Len(regions) = 0 THEN <<>>
    ELSE LET r == Head(regions)
             rest == TemplateMatcher_findDefectRegions(d, Tail(regions))
             confidence == Min2(100, (r.mean * 100) \div 255)
         IN  IF r.area < d.minArea \/ r.area > d.maxArea THEN rest
             ELSE IF confidence < d.confidenceThreshold THEN rest
             ELSE <<Defect(TemplateMatcher_classifyDefect(r), Rect(r.x, r.y, r.w, r.h),
                           confidence, r.area, r.circ)>> \o rest

DetectReturn(d, defects) == [st |-> "ok", det |-> d, defects |-> defects]
DetectThrow(d) == [st |-> "throw", det |-> d, defects |-> <<>>]

\* TemplateMatcher::detect: cv::absdiff needs both images single-channel
TemplateMatcher_detect(d, image, regions, dt) ==
    IF IsEmpty(image) THEN DetectReturn(d, <<>>)
    ELSE IF ~d.hasReference THEN DetectReturn(d, <<>>)
    ELSE IF ~d.enabled THEN DetectReturn(d, <<>>)
    ELSE IF image.ch # 3 /\ image.ch # 1 THEN DetectThrow(d)
    ELSE LET defects == TemplateMatcher_findDefectRegions(d, regions)
         IN  DetectReturn(recordStatistics([d EXCEPT !.debug = image.px], Len(defects), dt),
                          defects)

\* FeatureDetector::classifyDefect
FeatureDetector_classifyDefect(r) ==
    IF r.circ > 85 THEN "Stain"
    ELSE IF AspectRatio100(r.w, r.h) > 400 THEN "Scratch"
    ELSE IF r.mean < 100 THEN "Discoloration"
    ELSE IF r.circ < 40 THEN "Deformation"
    ELSE "Stain"

\* FeatureDetector::calculateConfidence
FeatureDetector_calculateConfidence(r) ==
    IF r.w * r.h <= 0 THEN 0
    ELSE Min2(100, Max2(0, (60 * ((r.area * 100) \div (r.w * r.h)) + 40 * r.circ) \div 100))

\* FeatureDetector::extractDefectsFromContours
RECURSIVE FeatureDetector_extractDefectsFromContours(_, _)
FeatureDetector_extractDefectsFromContours(d, regions) ==
    IF Len(regions) = 0 THEN <<>>
    ELSE LET r == Head(regions)
             rest == FeatureDetector_extractDefectsFromContours(d, Tail(regions))
             confidence == FeatureDetector_calculateConfidence(r)
         IN  IF r.area < d.minArea \/ r.area > d.maxArea THEN rest
             ELSE IF r.circ < 0 \/ r.circ > 100 THEN rest
             ELSE IF confidence < d.confidenceThreshold THEN rest
             ELSE <<Defect(FeatureDetector_classifyDefect(r), Rect(r.x, r.y, r.w, r.h),
                           confidence, r.area, r.circ)>> \o rest

\* FeatureDetector::detect in Adaptive mode: cv::adaptiveThreshold needs a
\* single-channel image
FeatureDetector_detect(d, image, regions, dt) ==
    IF IsEmpty(image) \/ ~d.enabled THEN DetectReturn(d, <<>>)
    ELSE IF image.ch # 3 /\ image.ch # 1 THEN DetectThrow(d)
    ELSE LET defects == FeatureDetector_extractDefectsFromContours(d, regions)
         IN  DetectReturn(recordStatistics([d EXCEPT !.debug = image.px], Len(defects), dt),
                          defects)

\* FeatureDetector::detectByEdge: Canny takes any 8-bit image; contours is
\* what findContours returns on the dilated edges
FeatureDetector_detectByEdge(d, image, contours) ==
    DetectReturn([d EXCEPT !.debug = image.px],
                 FeatureDetector_extractDefectsFromContours(d, contours))

\* FeatureDetector::detectByAdaptive: cv::adaptiveThreshold needs a
\* single-channel image; contours is what findContours returns on the
\* opened and closed binary image
FeatureDetector_detectByAdaptive(d, image, contours) ==
    IF image.ch # 3 /\ image.ch # 1 THEN DetectThrow(d)
    ELSE DetectReturn([d EXCEPT !.debug = image.px],
                      FeatureDetector_extractDefectsFromContours(d, contours))

\* the merge of detectByCombined leaving out what the edge pass already found
RECURSIVE MergeEdgeAdaptive_Deduplicated(_, _)
MergeEdgeAdaptive_Deduplicated(edgeDefects, adaptiveDefects) ==
    IF Len(adaptiveDefects) = 0 THEN edgeDefects
    ELSE IF \E k \in 1..Len(edgeDefects) : edgeDefects[k] = Head(adaptiveDefects)
         THEN MergeEdgeAdaptive_Deduplicated(edgeDefects, Tail(adaptiveDefects))
         ELSE MergeEdgeAdaptive_Deduplicated(Append(edgeDefects, Head(adaptiveDefects)),
                                             Tail(adaptiveDefects))

\* detectByCombined lines 172-173: combined = edgeDefects, then the
\* adaptive defects inserted at its end
MergeEdgeAdaptive(edgeDefects, adaptiveDefects) == edgeDefects \o adaptiveDefects

\* FeatureDetector::detectByCombined: e and a are what detectByEdge and
\* detectByAdaptive did
FeatureDetector_detectByCombined(d, e, a) ==
    IF e.st = "throw" THEN DetectThrow(d)
    ELSE IF a.st = "throw" THEN DetectThrow(e.det)
    ELSE DetectReturn(a.det, MergeEdgeAdaptive(e.defects, a.defects))

\* the switch of FeatureDetector::detect
FeatureDetector_detectByMode(d, mode, image, edgeContours, adaptiveContours) ==
    CASE mode = "Edge" -> FeatureDetector_detectByEdge(d, image, edgeContours)
      [] mode = "Adaptive" -> FeatureDetector_detectByAdaptive(d, image, adaptiveContours)
      [] OTHER -> FeatureDetector_detectByCombined(d,
                      FeatureDetector_detectByEdge(d, image, edgeContours),
                      FeatureDetector_detectByAdaptive(
                          FeatureDetector_detectByEdge(d, image, edgeContours).det,
                          image, adaptiveContours))

\* the end of FeatureDetector::detect: the statistics are recorded when the
\* mode's function returned
FeatureDetector_recorded(r, dt) ==
    IF r.st = "throw" THEN r
    ELSE DetectReturn(recordStatistics(r.det, Len(r.defects), dt), r.defects)

\* FeatureDetector::detect in the given mode
FeatureDetector_detectIn(d, mode, image, edgeContours, adaptiveContours, dt) ==
    IF IsEmpty(image) \/ ~d.enabled THEN DetectReturn(d, <<>>)
    ELSE FeatureDetector_recorded(
             FeatureDetector_detectByMode(d, mode, image, edgeContours, adaptiveContours),
             dt)

\* BlobDetector::calculateConfidence
BlobDetector_calculateConfidence(d, kp) ==
    LET baseConfidence == Min2(100, kp.response)
        confidence == IF kp.size < d.minArea \/ kp.size > d.maxArea
                      THEN baseConfidence \div 2 ELSE baseConfidence
    IN  Max2(0, Min2(100, confidence))

\* BlobDetector::classifyBlob on the features of calculateBlobFeatures
\* (convexity 0.8 and inertia ratio 0.5 unless re-derived)
BlobDetector_classifyBlob(kp) ==
    LET area == kp.size * kp.size
        circularity == kp.circ
        convexity == 80
        inertia_ratio == 50
    IN  IF inertia_ratio < 30 /\ circularity < 50 THEN "Scratch"
        ELSE IF circularity > 70 /\ area < 1000 THEN "Stain"
        ELSE IF area > 5000 /\ convexity < 70 THEN "Deformation"
        ELSE "Discoloration"

\* BlobDetector::keyPointToDefect: the box is clipped to the image
BlobDetector_keyPointToDefect(d, kp, image) ==
    LET cols == Len(image.px)
        rows == 1
        radius == kp.size \div 2
        x == Max2(0, Min2(kp.x - radius, cols - 1))
        y == Max2(0, Min2(kp.y - radius, rows - 1))
        width == Min2(kp.size, cols - x)
        height == Min2(kp.size, rows - y)
    IN  Defect(BlobDetector_classifyBlob(kp), Rect(x, y, width, height),
               BlobDetector_calculateConfidence(d, kp), kp.size * kp.size, kp.circ)

RECURSIVE BlobDetector_convert(_, _, _)
BlobDetector_convert(d, kps, image) ==
    IF Len(kps) = 0 THEN <<>>
    ELSE LET defect == BlobDetector_keyPointToDefect(d, Head(kps), image)
             rest == BlobDetector_convert(d, Tail(kps), image)
         IN  IF defect.confidence >= d.confidenceThreshold THEN <<defect>> \o rest ELSE rest

\* BlobDetector::detect: SimpleBlobDetector needs a single-channel image;
\* its exception is caught here, after lastKeyPoints_ was cleared
BlobDetector_detect(d, image, regions, dt) ==
    IF IsEmpty(image) THEN DetectReturn(d, <<>>)
    ELSE IF ~d.enabled THEN DetectReturn(d, <<>>)
    ELSE IF image.ch # 3 /\ image.ch # 1 THEN DetectReturn([d EXCEPT !.debug = <<>>], <<>>)
    ELSE LET defects == BlobDetector_convert(d, regions, image)
         IN  DetectReturn(recordStatistics([d EXCEPT !.debug = regions], Len(defects), dt),
                          defects)

\* classifyEdge testing the three boundary rules before the two length rules
EdgeDetector_classifyEdge_BoundaryFirst(r, isOnBoundary) ==
    LET curvature == IF r.h >= r.w THEN (r.h * 100) \div r.w - 100
                     ELSE 100 - (r.h * 100) \div r.w
    IN  IF isOnBoundary /\ r.straight < 50 THEN "Deformation"
        ELSE IF isOnBoundary /\ curvature > 30 THEN "Deformation"
        ELSE IF isOnBoundary /\ r.straight > 80 THEN "Deformation"
        ELSE IF r.length > 100 /\ r.straight > 90 THEN "Scratch"
        ELSE IF r.length < 50 /\ r.gaps > 0 THEN "Scratch"
        ELSE "Unknown"

\* EdgeDetector::classifyEdge
EdgeDetector_classifyEdge(r, isOnBoundary) ==
    LET curvature == IF r.h >= r.w THEN (r.h * 100) \div r.w - 100
                     ELSE 100 - (r.h * 100) \div r.w
    IN  IF r.length > 100 /\ r.straight > 90 THEN "Scratch"
        ELSE IF r.length < 50 /\ r.gaps > 0 THEN "Scratch"
        ELSE IF isOnBoundary /\ r.straight < 50 THEN "Deformation"
        ELSE IF isOnBoundary /\ curvature > 30 THEN "Deformation"
        ELSE IF isOnBoundary /\ r.straight > 80 THEN "Deformation"
        ELSE "Unknown"

\* EdgeDetector::calculateConfidence; features.strength is the constant 100
EdgeDetector_calculateConfidence(r) ==
    LET baseConfidence == Min2(100, (r.length * 100) \div 200)
        strengthScore == Min2(100, (100 * 100) \div 150)
    IN  Max2(0, Min2(100, (baseConfidence * 50 + r.straight * 30 + strengthScore * 20) \div 100))

\* EdgeDetector::passAngleFilter
EdgeDetector_passAngleFilter(d, angle) ==
    IF ~d.angleFilterEnabled THEN TRUE
    ELSE angle >= d.minEdgeAngle /\ angle <= d.maxEdgeAngle

\* EdgeDetector::detect, the loop over the contours
RECURSIVE EdgeDetector_convert(_, _, _)
EdgeDetector_convert(d, regions, image) ==
    IF Len(regions) = 0 THEN <<>>
    ELSE LET r == Head(regions)
             rest == EdgeDetector_convert(d, Tail(regions), image)
             isOnBoundary == r.x <= 1 \/ r.y <= 1 \/ r.x + r.w - 1 >= Len(image.px) - 2
                             \/ r.y + r.h - 1 >= 1 - 2
             confidence == EdgeDetector_calculateConfidence(r)
         IN  IF r.points < 3 THEN rest
             ELSE IF ~(r.length >= d.minLength /\ r.length <= d.maxLength) THEN rest
             ELSE IF d.angleFilterEnabled /\ ~EdgeDetector_passAngleFilter(d, r.angle) THEN rest
             ELSE IF confidence >= d.confidenceThreshold
             THEN <<Defect(EdgeDetector_classifyEdge(r, isOnBoundary), Rect(r.x, r.y, r.w, r.h),
                           confidence, r.length, 0)>> \o rest
             ELSE rest

\* EdgeDetector::detect in Canny mode (cv::Canny takes any channel count)
EdgeDetector_detect(d, image, regions, dt) ==
    IF IsEmpty(image) THEN DetectReturn(d, <<>>)
    ELSE IF ~d.enabled THEN DetectReturn(d, <<>>)
    ELSE LET defects == EdgeDetector_convert(d, regions, image)
         IN  DetectReturn(recordStatistics([d EXCEPT !.debug = image.px], Len(defects), dt),
                          defects)

\* virtual DetectorBase::detect
Detector_detect(d, image, regions, dt) ==
    CASE d.kind = "template" -> TemplateMatcher_detect(d, image, regions, dt)
      [] d.kind = "feature" -> FeatureDetector_detect(d, image, regions, dt)
      [] d.kind = "blob" -> BlobDetector_detect(d, image, regions, dt)
      [] OTHER -> EdgeDetector_detect(d, image, regions, dt)

(***************************************************************************)
(* InspectionController                                                    *)
(***************************************************************************)
MaxDetectors == 2
MaxInspections == 1
MaxAllowed == 1

\* InspectionResult as default-constructed
InspectionResult ==
    [success |-> FALSE, errorMessage |-> <<>>, originalImage |-> EmptyMat,
     processedImage |-> EmptyMat, visualizedImage |-> EmptyMat, defects |-> <<>>,
     isOK |-> TRUE, preprocessingTime |-> 0, detectionTime |-> 0, totalTime |-> 0,
     timestamp |-> ""]

\* judgeResult with the boundary excluded
judgeResult_Strict(defects, maxAllowed) == Len(defects) < maxAllowed

\* InspectionController::judgeResult
judgeResult(defects, maxAllowed) == Len(defects) <= maxAllowed

\* the confidence filter loop with a strict comparison
RECURSIVE FilterByConfidence_Strict(_, _)
FilterByConfidence_Strict(allDefects, minConfidence) ==
    IF Len(allDefects) = 0 THEN <<>>
    ELSE IF Head(allDefects).confidence > minConfidence
         THEN <<Head(allDefects)>> \o FilterByConfidence_Strict(Tail(allDefects), minConfidence)
         ELSE FilterByConfidence_Strict(Tail(allDefects), minConfidence)

\* the confidence filter loop of inspect()
RECURSIVE FilterByConfidence(_, _)
FilterByConfidence(allDefects, minConfidence) ==
    IF Len(allDefects) = 0 THEN <<>>
    ELSE IF Head(allDefects).confidence >= minConfidence
         THEN <<Head(allDefects)>> \o FilterByConfidence(Tail(allDefects), minConfidence)
         ELSE FilterByConfidence(Tail(allDefects), minConfidence)

\* the detector loop of inspect() from detectors_[i] on: dets the detector
\* objects as updated so far, regs[i] what OpenCV finds for detector i,
\* ran/returned the record of the detect() calls made
RECURSIVE DetectLoop(_, _, _, _, _, _, _, _)
\* one pass of the loop body, r being what detectors_[i]->detect returned
\* or threw
DetectStep(dets, i, image, regs, dt, allDefects, ran, returned, r) ==
    IF r.st = "throw"
    THEN [st |-> "throw", dets |-> [dets EXCEPT ![i] = r.det], allDefects |-> allDefects,
          ran |-> Append(ran, i), returned |-> returned, thrower |-> i]
    ELSE DetectLoop([dets EXCEPT ![i] = r.det], i + 1, image, regs, dt,
                    allDefects \o r.defects, Append(ran, i), Append(returned, r.defects))

\* the detector loop calling detect() whatever the enabled flag says
DetectLoop_EnabledIgnored(dets, i, image, regs, dt, allDefects, ran, returned) ==
    IF i > Len(dets)
    THEN [st |-> "ok", dets |-> dets, allDefects |-> allDefects, ran |-> ran,
          returned |-> returned, thrower |-> 0]
    ELSE DetectStep(dets, i, image, regs, dt, allDefects, ran, returned,
                    Detector_detect(dets[i], image, regs[i], dt))

DetectLoop(dets, i, image, regs, dt, allDefects, ran, returned) ==
    IF i > Len(dets)
    THEN [st |-> "ok", dets |-> dets, allDefects |-> allDefects, ran |-> ran,
          returned |-> returned, thrower |-> 0]
    ELSE IF ~dets[i].enabled
    THEN DetectLoop(dets, i + 1, image, regs, dt, allDefects, ran, returned)
    ELSE DetectStep(dets, i, image, regs, dt, allDefects, ran, returned,
                    Detector_detect(dets[i], image, regs[i], dt))

\* the record of one inspect() call: the result it returned, whether it
\* reached the statistics update, and what it invoked on the way
CallRecord(image, result, counted, dets, stages, ran, returned, thrower) ==
    [called |-> TRUE, image |-> image, result |-> result, counted |-> counted, dets |-> dets,
     stages |-> stages, ran |-> ran, returned |-> returned, thrower |-> thrower]

\* inspect() lines 155-173: judgment, visualization, success; top is the
\* last buffer allocated so far
InspectJudge(image, result1, stages, loop, filteredDefects, maxAllowed, visualize, dt, top) ==
    CallRecord(image,
               [result1 EXCEPT
                   !.detectionTime = dt,
                   !.defects = filteredDefects,
                   !.isOK = judgeResult(filteredDefects, maxAllowed),
                   !.visualizedImage =
                       IF visualize /\ Len(filteredDefects) > 0
                       THEN Mat(3, image.px, top + 2)
                       ELSE IF visualize THEN CloneMat(image, top + 2)
                       ELSE EmptyMat,
                   !.success = TRUE,
                   !.totalTime = 3 * dt],
               TRUE, loop.dets, stages, loop.ran, loop.returned, 0)

\* inspect() lines 144-153 and the catch at 175-178: loop is how the
\* detector loop ended
InspectFilter(image, result1, stages, loop, maxAllowed, minConfidence, visualize, dt, top) ==
    IF loop.st = "throw"
    THEN CallRecord(image, [result1 EXCEPT !.success = FALSE,
                                !.errorMessage = <<"Exception during inspection: ", "what">>,
                                !.totalTime = 3 * dt],
                    TRUE, loop.dets, stages, loop.ran, loop.returned, loop.thrower)
    ELSE InspectJudge(image, result1, stages, loop,
                      FilterByConfidence(loop.allDefects, minConfidence),
                      maxAllowed, visualize, dt, top)

\* inspect() lines 128-142: the processed image is stored and the detectors run
InspectDetect(image, dets, regs, result0, preprocessingTime, processedImage, stages, top, maxAllowed, minConfidence, visualize, dt) ==
    InspectFilter(image,
                  [result0 EXCEPT !.preprocessingTime = preprocessingTime,
                                  !.processedImage = CloneMat(processedImage, top + 1)],
                  stages,
                  DetectLoop(dets, 1, processedImage, regs, dt, <<>>, <<>>, <<>>),
                  maxAllowed, minConfidence, visualize, dt, top)

\* inspect() lines 115-125: what follows pipeline_->processWithIntermediates
\* what follows processWithIntermediates when its success flag is not tested
InspectPreprocessed_Unchecked(image, dets, regs, result0, pipelineResult, maxAllowed, minConfidence, visualize, dt) ==
    InspectDetect(image, dets, regs, result0, dt, pipelineResult.finalImage,
                  pipelineResult.applied,
                  pipelineResult.intermediateImages[Len(pipelineResult.intermediateImages)].buf,
                  maxAllowed, minConfidence, visualize, dt)

InspectPreprocessed(image, dets, regs, result0, pipelineResult, maxAllowed, minConfidence, visualize, dt) ==
    IF ~pipelineResult.success
    THEN CallRecord(image, [result0 EXCEPT !.success = FALSE,
                                !.errorMessage = <<"Preprocessing failed: ">>
                                                 \o pipelineResult.errorMessage],
                    FALSE, dets, pipelineResult.applied, <<>>, <<>>, 0)
    ELSE InspectDetect(image, dets, regs, result0, dt, pipelineResult.finalImage,
                       pipelineResult.applied,
                       pipelineResult.intermediateImages[Len(pipelineResult.intermediateImages)].buf,
                       maxAllowed, minConfidence, visualize, dt)

\* inspect() lines 106-107: the result as first filled in
StartedResult(image) ==
    [InspectionResult EXCEPT !.originalImage = CloneMat(image, CallerBuffer + 1),
                             !.timestamp = "now"]

\* inspect() after the input check: preprocessing, detection, filtering,
\* judgment, visualization
InspectChecked(image, fs, dets, regs, maxAllowed, minConfidence, visualize, dt) ==
    IF Len(fs) > 0
    THEN InspectPreprocessed(image, dets, regs, StartedResult(image),
                             Pipeline_processWithIntermediates(fs, image, dt, CallerBuffer + 3),
                             maxAllowed, minConfidence, visualize, dt)
    ELSE InspectDetect(image, dets, regs, StartedResult(image), 0,
                       CloneMat(image, CallerBuffer + 2), <<>>, CallerBuffer + 2,
                       maxAllowed, minConfidence, visualize, dt)

\* inspect() without its input check
inspect_Unchecked(image, fs, dets, regs, maxAllowed, minConfidence, visualize, dt) ==
    InspectChecked(image, fs, dets, regs, maxAllowed, minConfidence, visualize, dt)

\* InspectionController::inspect up to the statistics update
InspectionController_inspect(image, fs, dets, regs, maxAllowed, minConfidence, visualize, dt) ==
    IF IsEmpty(image)
    THEN CallRecord(image, [InspectionResult EXCEPT !.success = FALSE,
                                !.errorMessage = <<"Input image is empty">>],
                    FALSE, dets, <<>>, <<>>, <<>>, 0)
    ELSE InspectChecked(image, fs, dets, regs, maxAllowed, minConfidence, visualize, dt)

NoCall == [CallRecord(EmptyMat, InspectionResult, FALSE, <<>>, <<>>, <<>>, <<>>, 0)
              EXCEPT !.called = FALSE]

\* the controller is set up before it is used: no inspect() call was made yet
Configuring == totalInspections_ = 0 /\ lastCall = NoCall

\* InspectionController::addDetector
addDetector ==
    /\ Configuring
    /\ Len(detectors) < MaxDetectors
    /\ \E d \in NewDetectors : detectors' = Append(detectors, d)
    /\ UNCHANGED lastCall
    /\ UNCHANGED <<maxAllowedDefects_, minDefectConfidence_, visualizationEnabled_>>

\* InspectionController::clearDetectors
clearDetectors ==
    /\ Configuring
    /\ detectors' = <<>>
    /\ UNCHANGED lastCall
    /\ UNCHANGED <<maxAllowedDefects_, minDefectConfidence_, visualizationEnabled_>>

\* getDetector(index)->setEnabled(enabled)
setDetectorEnabled(index, enabled) ==
    /\ Configuring
    /\ index < Len(detectors)
    /\ detectors' = [detectors EXCEPT ![index + 1].enabled = enabled]
    /\ UNCHANGED lastCall
    /\ UNCHANGED <<maxAllowedDefects_, minDefectConfidence_, visualizationEnabled_>>

\* getDetector(index)->setConfidenceThreshold(threshold)
setConfidenceThreshold(index, threshold) ==
    /\ Configuring
    /\ index < Len(detectors)
    /\ detectors' = [detectors EXCEPT ![index + 1].confidenceThreshold =
                        IF threshold >= 0 /\ threshold <= 100 THEN threshold ELSE @]
    /\ UNCHANGED lastCall
    /\ UNCHANGED <<maxAllowedDefects_, minDefectConfidence_, visualizationEnabled_>>

\* setJudgmentCriteria assigning minConfidence whatever its value
setJudgmentCriteria_Unchecked(maxDefects, minConfidence) ==
    /\ Configuring
    /\ maxAllowedDefects_' = maxDefects
    /\ minDefectConfidence_' = minConfidence
    /\ UNCHANGED lastCall
    /\ UNCHANGED <<detectors, visualizationEnabled_>>

\* InspectionController::setJudgmentCriteria
setJudgmentCriteria(maxDefects, minConfidence) ==
    /\ Configuring
    /\ maxAllowedDefects_' = maxDefects
    /\ minDefectConfidence_' = IF minConfidence >= 0 /\ minConfidence <= 100
                               THEN minConfidence ELSE minDefectConfidence_
    /\ UNCHANGED lastCall
    /\ UNCHANGED <<detectors, visualizationEnabled_>>

\* InspectionController::setPipeline with a pipeline built by the caller
ControllerPipelines ==
    {<<>>,
     <<GrayscaleFilter(1), GaussianFilter(2, 3)>>,
     <<[GrayscaleFilter(1) EXCEPT !.enabled = FALSE], ThresholdFilter(2, 128, "otsu", 255)>>}

setPipeline ==
    /\ Configuring
    /\ \E fs \in ControllerPipelines : filters' = fs
    /\ UNCHANGED lastCall
    /\ UNCHANGED <<nextFilterId, pipeOut, detectors, maxAllowedDefects_, minDefectConfidence_,
                   visualizationEnabled_>>

\* the images handed to inspect()
InspectImages == {EmptyMat, TwoChannelImage, ColorImage}

\* InspectionController::inspect on one thread, start to return
inspectCall(image) ==
    /\ \E dt \in Ticks, regs \in [1..Len(detectors) -> RegionLists] :
          \E call \in {InspectionController_inspect(image, filters, detectors, regs,
                          maxAllowedDefects_, minDefectConfidence_, visualizationEnabled_, dt)} :
              /\ lastCall' = call
              /\ detectors' = call.dets
              /\ IF call.counted
                 THEN /\ totalInspections_' = totalInspections_ + 1
                      /\ totalDefectsFound_' = totalDefectsFound_ + Len(call.result.defects)
                      /\ totalNGCount_' = IF ~call.result.isOK THEN totalNGCount_ + 1
                                          ELSE totalNGCount_
                      /\ totalProcessingTime_' = totalProcessingTime_ + call.result.totalTime
                 ELSE UNCHANGED statVars
    /\ UNCHANGED <<maxAllowedDefects_, minDefectConfidence_, visualizationEnabled_>>

\* inspect() while the controller has inspections left to make
inspect(image) ==
    /\ totalInspections_ < MaxInspections
    /\ inspectCall(image)


(***************************************************************************)
(* Filter and detector objects used on their own: construction, setters,   *)
(* setParameters(json), clone().  A JSON value is [t |-> its type, v |->   *)
(* its number]; a JSON object is a function from its keys to values.       *)
(***************************************************************************)
JsonInt(n) == [t |-> "int", v |-> n]
JsonString == [t |-> "string", v |-> 0]

\* every JSON object with keys among keys and values among values
ParamsOver(keys, values) == UNION {[S -> values] : S \in SUBSET keys}

\* params[key].get<int>() / get<double>(): the number, or json::type_error
GetNumber(j) == IF j.t = "int" THEN [st |-> "ok", v |-> j.v] ELSE [st |-> "throw", v |-> 0]

\* no object / no call yet; a call record keeps the object as it was before
\* the call for the filters' setters and for detect()
NoObject == [type |-> "none"]

\* the buffers cv::Mat members can hold; a free buffer has no pixels
MaxBuffers == 5
Buffers == 1..MaxBuffers
NoBuffers == [b \in Buffers |-> <<>>]
NoParams == [k \in {} |-> JsonString]
OpRecord(op, target, arg, params, before, raised) ==
    [op |-> op, target |-> target, arg |-> arg, params |-> params, before |-> before,
     raised |-> raised]
NoOp == OpRecord("none", "obj", 0, NoParams, NoObject, FALSE)

\* GaussianFilter::setKernelSize
GaussianFilter_setKernelSize(f, size) ==
    IF isValidKernelSize(size) THEN [f EXCEPT !.kernelSize = size] ELSE f

\* GaussianFilter::setSigma
GaussianFilter_setSigma(f, sigma) ==
    IF sigma >= 0 THEN [f EXCEPT !.sigma = sigma] ELSE f

\* GaussianFilter::setParameters from the "sigma" key on
GaussianFilter_setParametersSigma(f, params) ==
    IF "sigma" \in DOMAIN params
    THEN IF GetNumber(params["sigma"]).st = "throw" THEN f
         ELSE GaussianFilter_setSigma(f, GetNumber(params["sigma"]).v)
    ELSE f

\* GaussianFilter::setParameters: a json::exception ends the call where it
\* is raised
GaussianFilter_setParameters(f, params) ==
    IF "kernel_size" \in DOMAIN params
    THEN IF GetNumber(params["kernel_size"]).st = "throw" THEN f
         ELSE GaussianFilter_setParametersSigma(
                  GaussianFilter_setKernelSize(f, GetNumber(params["kernel_size"]).v), params)
    ELSE GaussianFilter_setParametersSigma(f, params)

\* the arguments callers pass
KernelSizeArgs == {-3, 0, 1, 2, 3, 7}
SigmaArgs == {-5, 0, 20}
GaussianParams ==
    ParamsOver({"kernel_size", "sigma"},
               {JsonInt(-3), JsonInt(0), JsonInt(4), JsonInt(7), JsonString})

\* obj.setKernelSize(size) on a GaussianFilter
callSetKernelSize(size) ==
    /\ obj.type = "gaussian_blur"
    /\ obj' = GaussianFilter_setKernelSize(obj, size)
    /\ lastOp' = OpRecord("setKernelSize", "obj", size, NoParams, obj, FALSE)
    /\ UNCHANGED <<copy, heap>>

\* obj.setSigma(sigma) on a GaussianFilter
callSetSigma(sigma) ==
    /\ obj.type = "gaussian_blur"
    /\ obj' = GaussianFilter_setSigma(obj, sigma)
    /\ lastOp' = OpRecord("setSigma", "obj", sigma, NoParams, obj, FALSE)
    /\ UNCHANGED <<copy, heap>>

\* obj.setParameters(params) on a GaussianFilter
callGaussianSetParameters(params) ==
    /\ obj.type = "gaussian_blur"
    /\ obj' = GaussianFilter_setParameters(obj, params)
    /\ lastOp' = OpRecord("setParameters", "obj", 0, params, obj, FALSE)
    /\ UNCHANGED <<copy, heap>>

\* ThresholdFilter::setThreshold
ThresholdFilter_setThreshold(f, threshold) ==
    IF threshold >= 0 /\ threshold <= 255 THEN [f EXCEPT !.threshold = threshold] ELSE f

\* ThresholdFilter::setMaxValue
ThresholdFilter_setMaxValue(f, maxValue) ==
    IF maxValue >= 0 /\ maxValue <= 255 THEN [f EXCEPT !.maxValue = maxValue] ELSE f

\* what a setParameters call leaves: the object, and whether an exception
\* left the call
SetReturned(f) == [f |-> f, raised |-> FALSE]
SetRaised(f) == [f |-> f, raised |-> TRUE]

\* ThresholdFilter::setParameters from the "max_value" key on
ThresholdFilter_setParametersMaxValue(f, params) ==
    IF "max_value" \in DOMAIN params
    THEN IF GetNumber(params["max_value"]).st = "throw" THEN SetRaised(f)
         ELSE SetReturned(ThresholdFilter_setMaxValue(f, GetNumber(params["max_value"]).v))
    ELSE SetReturned(f)

\* ThresholdFilter::setParameters for the keys "threshold" and "max_value":
\* there is no try block, a json::exception of get<double>() leaves the call
ThresholdFilter_setParameters(f, params) ==
    IF "threshold" \in DOMAIN params
    THEN IF GetNumber(params["threshold"]).st = "throw" THEN SetRaised(f)
         ELSE ThresholdFilter_setParametersMaxValue(
                  ThresholdFilter_setThreshold(f, GetNumber(params["threshold"]).v), params)
    ELSE ThresholdFilter_setParametersMaxValue(f, params)

ThresholdParams ==
    ParamsOver({"threshold", "max_value"},
               {JsonInt(-3), JsonInt(7), JsonInt(200), JsonInt(300), JsonString})

\* obj.setParameters(params) on a ThresholdFilter
callThresholdSetParameters(params) ==
    /\ obj.type = "threshold"
    /\ \E r \in {ThresholdFilter_setParameters(obj, params)} :
          /\ obj' = r.f
          /\ lastOp' = OpRecord("setParameters", "obj", 0, params, obj, r.raised)
    /\ UNCHANGED <<copy, heap>>

(***************************************************************************)
(* Detector objects used on their own.  The cv::Mat members referenceImage_*)
(* and the debug image (diffImage_, processedImage_, lastEdgeImage_) are   *)
(* buffer numbers into heap; copying a cv::Mat copies the number, clone()  *)
(* fills a fresh buffer.                                                   *)
(***************************************************************************)
MaxTotalDetections == 0
MaxTotalTime == 0

\* a detector as constructed: no reference image, no debug image
DetectorObject(kind, minArea, maxArea) ==
    Detector(kind, minArea, maxArea, FALSE)
        @@ [referenceImage |-> NoBuffer, debugImage |-> NoBuffer]

NewDetectorObjects ==
    {DetectorObject("template", 1, 100), DetectorObject("feature", 1, 100),
     DetectorObject("blob", 50, 50000), DetectorObject("edge", 0, 0)}

\* the buffers an object's cv::Mat members refer to
BuffersOf(o) ==
    IF o = NoObject THEN {} ELSE {o.referenceImage, o.debugImage} \ {NoBuffer}

\* the buffer an allocation returns: one that no cv::Mat refers to
FreshBuffer(used) == CHOOSE b \in Buffers \ used : \A c \in Buffers \ used : b <= c

\* an object together with the buffers after a call
ObjectAndHeap(o, h) == [o |-> o, h |-> h]

\* DetectorBase::setEnabled
DetectorBase_setEnabled(o, enabled) == [o EXCEPT !.enabled = enabled]

\* DetectorBase::setConfidenceThreshold
DetectorBase_setConfidenceThreshold(o, threshold) ==
    IF threshold >= 0 /\ threshold <= 100 THEN [o EXCEPT !.confidenceThreshold = threshold]
    ELSE o

\* setReferenceImage copying the pixels into the buffer referenceImage_
\* already holds
DetectorBase_setReferenceImage_InPlace(o, h, px, fresh) ==
    IF px = <<>> THEN ObjectAndHeap([o EXCEPT !.referenceImage = NoBuffer,
                                             !.hasReference = FALSE], h)
    ELSE IF o.referenceImage # NoBuffer
    THEN ObjectAndHeap(o, [h EXCEPT ![o.referenceImage] = px])
    ELSE ObjectAndHeap([o EXCEPT !.referenceImage = fresh, !.hasReference = TRUE],
                       [h EXCEPT ![fresh] = px])

\* DetectorBase::setReferenceImage: referenceImage_ = referenceImage.clone()
DetectorBase_setReferenceImage(o, h, px, fresh) ==
    IF px = <<>> THEN ObjectAndHeap([o EXCEPT !.referenceImage = NoBuffer,
                                             !.hasReference = FALSE], h)
    ELSE ObjectAndHeap([o EXCEPT !.referenceImage = fresh, !.hasReference = TRUE],
                       [h EXCEPT ![fresh] = px])

\* DetectorBase::hasReferenceImage
DetectorBase_hasReferenceImage(o, h) ==
    IF o.referenceImage = NoBuffer THEN FALSE ELSE h[o.referenceImage] # <<>>

\* DetectorBase::resetStatistics
DetectorBase_resetStatistics(o) == [o EXCEPT !.totalDetections = 0, !.totalTime = 0]

\* EdgeDetector::setEdgeAngleFilter
EdgeDetector_setEdgeAngleFilter(o, minAngle, maxAngle) ==
    [o EXCEPT !.minEdgeAngle = minAngle, !.maxEdgeAngle = maxAngle,
              !.angleFilterEnabled = TRUE]

\* EdgeDetector::setAngleFilterEnabled
EdgeDetector_setAngleFilterEnabled(o, enabled) == [o EXCEPT !.angleFilterEnabled = enabled]

\* EdgeDetector::setEdgeLengthFilter
EdgeDetector_setEdgeLengthFilter(o, minLength, maxLength) ==
    [o EXCEPT !.minLength = minLength, !.maxLength = maxLength]

\* detect() on an object: r is what the detector's detect() did; a debug
\* image it assigned (xxxImage_ = m.clone()) goes into the fresh buffer
DetectObject(h, r, fresh) ==
    IF r.det.kind = "blob" \/ r.det.debug = <<>>
    THEN [st |-> r.st, defects |-> r.defects, o |-> r.det, h |-> h]
    ELSE [st |-> r.st, defects |-> r.defects,
          o |-> [r.det EXCEPT !.debug = <<>>, !.debugImage = fresh],
          h |-> [h EXCEPT ![fresh] = r.det.debug]]

\* TemplateMatcher::clone and FeatureDetector::clone: the copy constructor,
\* every member copied, the cv::Mat members referring to the same buffers
CopyConstructed(o) == o

\* BlobDetector::clone: a new BlobDetector(params_), then two setters
BlobDetector_clone(o) ==
    DetectorBase_setConfidenceThreshold(
        DetectorBase_setEnabled(DetectorObject("blob", o.minArea, o.maxArea), o.enabled),
        o.confidenceThreshold)

\* EdgeDetector::clone from the angle filter on
EdgeDetector_cloneAngle(o, cloned) ==
    IF o.angleFilterEnabled
    THEN EdgeDetector_setEdgeAngleFilter(cloned, o.minEdgeAngle, o.maxEdgeAngle)
    ELSE cloned

\* EdgeDetector::clone: a new EdgeDetector(mode_), then setters
EdgeDetector_clone(o) ==
    EdgeDetector_cloneAngle(o,
        EdgeDetector_setEdgeLengthFilter(
            DetectorBase_setConfidenceThreshold(
                DetectorBase_setEnabled(DetectorObject("edge", 0, 0), o.enabled),
                o.confidenceThreshold),
            o.minLength, o.maxLength))

\* virtual DetectorBase::clone
Detector_clone(o) ==
    CASE o.kind \in {"template", "feature"} -> CopyConstructed(o)
      [] o.kind = "blob" -> BlobDetector_clone(o)
      [] OTHER -> EdgeDetector_clone(o)

\* getParameters(): the parameters the model keeps, per detector type
Detector_getParameters(o) ==
    CASE o.kind \in {"template", "feature"} ->
            [min_area |-> o.minArea, max_area |-> o.maxArea,
             confidence_threshold |-> o.confidenceThreshold]
      [] o.kind = "blob" ->
            [type |-> "blob", enabled |-> o.enabled, min_area |-> o.minArea,
             max_area |-> o.maxArea, confidence_threshold |-> o.confidenceThreshold]
      [] OTHER ->
            [type |-> "edge", enabled |-> o.enabled, min_edge_length |-> o.minLength,
             max_edge_length |-> o.maxLength, min_edge_angle |-> o.minEdgeAngle,
             max_edge_angle |-> o.maxEdgeAngle,
             angle_filter_enabled |-> o.angleFilterEnabled,
             confidence_threshold |-> o.confidenceThreshold]

\* the object a call is made on, and the other one
Target(t) == IF t = "obj" THEN obj ELSE copy
Other(t) == IF t = "obj" THEN copy ELSE obj
Targets == {"obj", "copy"}

\* the call on Target(t) left it as o and the buffers as h; a buffer no
\* cv::Mat refers to any more is freed
Commit(t, o, h) ==
    /\ IF t = "obj" THEN obj' = o /\ copy' = copy ELSE copy' = o /\ obj' = obj
    /\ heap' = [b \in Buffers |->
                   IF b \in BuffersOf(o) \cup BuffersOf(Other(t)) THEN h[b] ELSE <<>>]

\* a detect() call: the image, the elapsed time, the defects returned
DetectRecord(t, image, dt, before, raised, defects) ==
    [op |-> "detect", target |-> t, arg |-> dt, params |-> NoParams, before |-> before,
     raised |-> raised, image |-> image, defects |-> defects]

ThresholdArgs == {30}

\* the calls made on obj and copy so far, at most MaxCalls
MaxCalls == 5
Calls == IF "calls" \in DOMAIN lastOp THEN lastOp.calls ELSE 0
Counted(record) == record @@ [calls |-> Calls + 1]
Callable(t) == Target(t) # NoObject /\ Calls < MaxCalls
AngleBands == {<<45, 135>>}

\* Target(t).setEnabled(enabled)
detSetEnabled(t, enabled) ==
    /\ Callable(t)
    /\ Commit(t, DetectorBase_setEnabled(Target(t), enabled), heap)
    /\ lastOp' = Counted(OpRecord("setEnabled", t, IF enabled THEN 1 ELSE 0, NoParams, NoObject, FALSE))

\* Target(t).setConfidenceThreshold(threshold)
detSetConfidenceThreshold(t, threshold) ==
    /\ Callable(t)
    /\ Commit(t, DetectorBase_setConfidenceThreshold(Target(t), threshold), heap)
    /\ lastOp' = Counted(OpRecord("setConfidenceThreshold", t, threshold, NoParams, NoObject, FALSE))

\* Target(t).setReferenceImage(image)
detSetReferenceImage(t, image) ==
    /\ Callable(t)
    /\ \E r \in {DetectorBase_setReferenceImage(Target(t), heap, image.px,
                     FreshBuffer(BuffersOf(obj) \cup BuffersOf(copy)))} :
          Commit(t, r.o, r.h)
    /\ lastOp' = Counted(OpRecord("setReferenceImage", t, image.ch, NoParams, NoObject, FALSE))

\* Target(t).resetStatistics()
detResetStatistics(t) ==
    /\ Callable(t)
    /\ Commit(t, DetectorBase_resetStatistics(Target(t)), heap)
    /\ lastOp' = Counted(OpRecord("resetStatistics", t, 0, NoParams, NoObject, FALSE))

\* Target(t).setEdgeAngleFilter(minAngle, maxAngle) on an EdgeDetector
detSetEdgeAngleFilter(t, minAngle, maxAngle) ==
    /\ Callable(t)
    /\ Target(t).kind = "edge"
    /\ Commit(t, EdgeDetector_setEdgeAngleFilter(Target(t), minAngle, maxAngle), heap)
    /\ lastOp' = Counted(OpRecord("setEdgeAngleFilter", t, minAngle, NoParams, NoObject, FALSE))

\* Target(t).setAngleFilterEnabled(enabled) on an EdgeDetector
detSetAngleFilterEnabled(t, enabled) ==
    /\ Callable(t)
    /\ Target(t).kind = "edge"
    /\ Commit(t, EdgeDetector_setAngleFilterEnabled(Target(t), enabled), heap)
    /\ lastOp' = Counted(OpRecord("setAngleFilterEnabled", t, IF enabled THEN 1 ELSE 0, NoParams,
                          NoObject, FALSE))

\* Target(t).detect(image); OpenCV reports regions, the call takes dt
detDetect(t, image, regions, dt) ==
    /\ Callable(t)
    /\ Target(t).totalDetections <= MaxTotalDetections
    /\ Target(t).totalTime <= MaxTotalTime
    /\ \E r \in {DetectObject(heap, Detector_detect(Target(t), image, regions, dt),
                              FreshBuffer(BuffersOf(obj) \cup BuffersOf(copy)))} :
          /\ Commit(t, r.o, r.h)
          /\ lastOp' = Counted(DetectRecord(t, image, dt, Target(t), r.st = "throw",
                                           r.defects))

\* copy = obj.clone()
detClone ==
    /\ Calls < MaxCalls
    /\ \E c \in {Detector_clone(obj)} :
          /\ copy' = c
          /\ heap' = [b \in Buffers |->
                         IF b \in BuffersOf(obj) \cup BuffersOf(c) THEN heap[b] ELSE <<>>]
    /\ lastOp' = Counted(OpRecord("clone", "obj", 0, NoParams, NoObject, FALSE))
    /\ UNCHANGED obj

\* no object is used on its own
InitObjects ==
    /\ obj = NoObject
    /\ copy = NoObject
    /\ lastOp = NoOp
    /\ heap = NoBuffers

(***************************************************************************)
(* Defect <-> JSON.  Numbers are counted in eighths; an int is a whole     *)
(* number of them, a float (cv::Point2f) a multiple of FloatUnit eighths,  *)
(* a double any number of eighths.  A JSON number is                       *)
(* [t |-> "int", v |-> n] or [t |-> "float", v |-> eighths].               *)
(***************************************************************************)
Eighths == 8
FloatUnit == 4

\* enum class DefectType
Scratch == 0
Stain == 1
Discoloration == 2
Deformation == 3
Unknown == 4
DefectTypes == {Scratch, Stain, Discoloration, Deformation, Unknown}

JsonFloat(x) == [t |-> "float", v |-> x]
JsonText(str) == [t |-> "string", v |-> str]
JsonObject(fields) == [t |-> "object", v |-> fields]
JsonArray(items) == [t |-> "array", v |-> items]

\* j.value(key, 0): the member as an int (a float is truncated), or 0
ValueInt(j, key) ==
    IF key \notin DOMAIN j.v THEN 0
    ELSE IF j.v[key].t = "int" THEN j.v[key].v
    ELSE IF j.v[key].v >= 0 THEN j.v[key].v \div Eighths
    ELSE -((-j.v[key].v) \div Eighths)

\* j.value(key, 0.0): the member as a double, or 0.0
ValueDouble(j, key) ==
    IF key \notin DOMAIN j.v THEN 0
    ELSE IF j.v[key].t = "int" THEN j.v[key].v * Eighths
    ELSE j.v[key].v

\* static_cast<float>(double): the nearest float
ToFloat(x) == ((2 * x + FloatUnit) \div (2 * FloatUnit)) * FloatUnit

\* j.value(key, 0.0f): the member as a float, or 0.0f
ValueFloat(j, key) == ToFloat(ValueDouble(j, key))

\* struct Defect with all its members
DefectStruct(type, bbox, confidence, center, area, circularity, contour) ==
    [type |-> type, bbox |-> bbox, confidence |-> confidence, center |-> center,
     area |-> area, circularity |-> circularity, contour |-> contour]

\* Defect::Defect()
DefaultDefect ==
    DefectStruct(Unknown, Rect(0, 0, 0, 0), 0, [x |-> 0, y |-> 0], 0, 0, <<>>)

defectTypeToString(type) ==
    CASE type = Scratch -> "Scratch"
      [] type = Stain -> "Stain"
      [] type = Discoloration -> "Discoloration"
      [] type = Deformation -> "Deformation"
      [] OTHER -> "Unknown"

\* stringToDefectType without the "Deformation" branch
stringToDefectType_NoDeformation(str) ==
    IF str = "Scratch" THEN Scratch
    ELSE IF str = "Stain" THEN Stain
    ELSE IF str = "Discoloration" THEN Discoloration
    ELSE Unknown

stringToDefectType(str) ==
    IF str = "Scratch" THEN Scratch
    ELSE IF str = "Stain" THEN Stain
    ELSE IF str = "Discoloration" THEN Discoloration
    ELSE IF str = "Deformation" THEN Deformation
    ELSE Unknown

PointToJson(p) == JsonObject([x |-> JsonInt(p.x), y |-> JsonInt(p.y)])

\* Defect::toJson
Defect_toJson(d) ==
    JsonObject(
        [type |-> JsonText(defectTypeToString(d.type)),
         bbox |-> JsonObject([x |-> JsonInt(d.bbox.x), y |-> JsonInt(d.bbox.y),
                              width |-> JsonInt(d.bbox.width),
                              height |-> JsonInt(d.bbox.height)]),
         confidence |-> JsonFloat(d.confidence),
         center |-> JsonObject([x |-> JsonFloat(d.center.x), y |-> JsonFloat(d.center.y)]),
         area |-> JsonFloat(d.area),
         circularity |-> JsonFloat(d.circularity),
         contour |-> JsonArray([i \in 1..Len(d.contour) |-> PointToJson(d.contour[i])])])

\* the loop of Defect::fromJson over j["contour"]
RECURSIVE ContourFromJson(_)
ContourFromJson(items) ==
    IF Len(items) = 0 THEN <<>>
    ELSE IF Head(items).t = "object"
    THEN <<[x |-> ValueInt(Head(items), "x"), y |-> ValueInt(Head(items), "y")]>>
             \o ContourFromJson(Tail(items))
    ELSE ContourFromJson(Tail(items))

\* Defect::fromJson
Defect_fromJson(j) ==
    [type |-> IF "type" \in DOMAIN j.v /\ j.v["type"].t = "string"
              THEN stringToDefectType(j.v["type"].v) ELSE DefaultDefect.type,
     bbox |-> IF "bbox" \in DOMAIN j.v /\ j.v["bbox"].t = "object"
              THEN Rect(ValueInt(j.v["bbox"], "x"), ValueInt(j.v["bbox"], "y"),
                        ValueInt(j.v["bbox"], "width"), ValueInt(j.v["bbox"], "height"))
              ELSE DefaultDefect.bbox,
     confidence |-> ValueDouble(j, "confidence"),
     center |-> IF "center" \in DOMAIN j.v /\ j.v["center"].t = "object"
                THEN [x |-> ValueFloat(j.v["center"], "x"), y |-> ValueFloat(j.v["center"], "y")]
                ELSE DefaultDefect.center,
     area |-> ValueDouble(j, "area"),
     circularity |-> ValueDouble(j, "circularity"),
     contour |-> IF "contour" \in DOMAIN j.v /\ j.v["contour"].t = "array"
                 THEN ContourFromJson(j.v["contour"].v) ELSE DefaultDefect.contour]

defectsToJson(ds) == JsonArray([i \in 1..Len(ds) |-> Defect_toJson(ds[i])])

\* defectsFromJson; a json that is no array raises std::invalid_argument
defectsFromJson(j) ==
    IF j.t # "array" THEN [st |-> "throw", defects |-> <<>>]
    ELSE [st |-> "ok", defects |-> [i \in 1..Len(j.v) |-> Defect_fromJson(j.v[i])]]

\* no json produced yet / no list restored yet
NoDocument == [t |-> "none", v |-> <<>>]
NotRestored == [st |-> "none", defects |-> <<>>]

\* the defects a caller holds
ContourSamples == {<<>>, <<[x |-> 1, y |-> 2]>>, <<[x |-> 1, y |-> 2], [x |-> -6, y |-> 0]>>}
DefectSamples ==
    {DefectStruct(type, bbox, confidence, center, area, 5, contour) :
        type \in DefectTypes, bbox \in {Rect(0, 0, 0, 0), Rect(-3, 5, 2, 7)},
        confidence \in {0, 7}, center \in {[x |-> 0, y |-> 0], [x |-> 12, y |-> -4]},
        area \in {0, 13}, contour \in ContourSamples}
PairSamples ==
    {DefectStruct(type, Rect(-3, 5, 2, 7), 7, [x |-> 12, y |-> -4], 13, 5, contour) :
        type \in {Stain, Deformation}, contour \in ContourSamples}
DefectLists ==
    {<<>>} \cup {<<d>> : d \in DefectSamples} \cup {<<d, e>> : d \in PairSamples, e \in PairSamples}

\* document = defectsToJson(defectList)
callDefectsToJson ==
    /\ document = NoDocument
    /\ document' = defectsToJson(defectList)
    /\ UNCHANGED <<defectList, restored>>

\* restored = defectsFromJson(document)
callDefectsFromJson ==
    /\ document # NoDocument
    /\ restored = NotRestored
    /\ restored' = defectsFromJson(document)
    /\ UNCHANGED <<defectList, document>>

\* no defect list is converted
InitJson ==
    /\ defectList = <<>>
    /\ document = NoDocument
    /\ restored = NotRestored

(***************************************************************************)
(* ExternalTriggerHandler::Session.  A response line (the callback's text  *)
(* plus the delimiter) is carried by the socket in Parts pieces; wire      *)
(* lists the pieces as the client receives them.                           *)
(***************************************************************************)
MaxRequests == 3
Parts == 2

\* one piece on the wire: of which request's response, which piece, and
\* whether it still holds the bytes of the response
Piece(req, part, intact) == [req |-> req, part |-> part, intact |-> intact]

\* the pieces 1..n of the response to req, sent while the string is alive
RECURSIVE PiecesUpTo(_, _)
PiecesUpTo(req, n) ==
    IF n = 0 THEN <<>> ELSE Append(PiecesUpTo(req, n - 1), Piece(req, n, TRUE))

\* an async_write in progress: the next piece it has to write
WriteOp(req, next) == [req |-> req, next |-> next]

\* the client sends its next request line
clientSend ==
    /\ sent < MaxRequests
    /\ sent' = sent + 1
    /\ inbox' = Append(inbox, sent + 1)
    /\ UNCHANGED <<pending, wire>>

\* the completion handler of async_read_until in Session::doRead, no error:
\* getline, processMessage, doWrite, doRead.  doWrite starts async_write on
\* a buffer over its local string: with no write queued the socket takes
\* the first n pieces at once, the rest is written after doWrite returned.
onRead ==
    /\ inbox # <<>>
    /\ \E n \in 0..Parts :
          /\ pending # <<>> => n = 0
          /\ wire' = wire \o PiecesUpTo(Head(inbox), n)
          /\ pending' = IF n = Parts THEN pending
                        ELSE Append(pending, WriteOp(Head(inbox), n + 1))
    /\ inbox' = Tail(inbox)
    /\ UNCHANGED sent

\* the socket takes the next piece of the oldest queued write; the string
\* it was built over is destroyed, the bytes read may or may not be the
\* response's; a write with pieces left queues behind the others
writeSome ==
    /\ pending # <<>>
    /\ \E intact \in BOOLEAN :
          wire' = Append(wire, Piece(Head(pending).req, Head(pending).next, intact))
    /\ pending' = IF Head(pending).next = Parts THEN Tail(pending)
                  ELSE Append(Tail(pending),
                              WriteOp(Head(pending).req, Head(pending).next + 1))
    /\ UNCHANGED <<inbox, sent>>

\* Session::start: nothing received, nothing written
InitSession ==
    /\ inbox = <<>>
    /\ sent = 0
    /\ pending = <<>>
    /\ wire = <<>>

(***************************************************************************)
(* ExternalTriggerHandler: the acceptor, its connection counters and the   *)
(* Session objects its io_context keeps alive.  A session lives as long as *)
(* its pending read handler does: the handler holds the only shared_ptr.   *)
(***************************************************************************)
MaxConnections == 2    \* maxConnections_, fixed for the run
TimeoutTicks == 1      \* timeoutSeconds_, in clock ticks
MaxIdle == 2           \* the clock stops counting a session's wait here
MaxSessions == 3       \* connections a client can hold at once
MaxConnectionCount == 3 \* cap of the cumulative counters
SessionIds == 1..MaxSessions

NoSession == [open |-> FALSE, idle |-> 0]
OpenSessions == {s \in SessionIds : sessions[s].open}

\* ExternalTriggerHandler::ExternalTriggerHandler
InitTrigger ==
    /\ handler = [running_ |-> FALSE, activeConnections_ |-> 0,
                  totalConnections_ |-> 0, totalTriggers_ |-> 0,
                  failedConnections_ |-> 0, rejected |-> FALSE]
    /\ sessions = [s \in SessionIds |-> NoSession]

\* ExternalTriggerHandler::start: a new io_context replaces the old one, whose
\* pending handlers are destroyed without being invoked, and with them the
\* sessions they kept alive; the acceptor may fail to bind
ExternalTriggerHandler_start(bound) ==
    /\ ~handler.running_
    /\ sessions' = [s \in SessionIds |-> NoSession]
    /\ handler' = [handler EXCEPT !.running_ = bound, !.rejected = FALSE]

\* ExternalTriggerHandler::stop: the acceptor is closed and the io_context
\* stopped; no handler runs any more, the sessions stay as they are
ExternalTriggerHandler_stop ==
    /\ handler.running_
    /\ handler' = [handler EXCEPT !.running_ = FALSE, !.rejected = FALSE]
    /\ UNCHANGED sessions

\* the accept handler of doAccept, with Session::start
doAccept(ec) ==
    /\ handler.running_
    /\ handler.totalConnections_ < MaxConnectionCount
    /\ handler.failedConnections_ < MaxConnectionCount
    /\ IF ec
         THEN /\ handler' = [handler EXCEPT !.failedConnections_ = @ + 1,
                                            !.rejected = FALSE]
              /\ UNCHANGED sessions
         ELSE IF handler.activeConnections_ < MaxConnections
                THEN \E s \in SessionIds :
                        /\ ~sessions[s].open
                        /\ \A t \in SessionIds : t < s => sessions[t].open
                        /\ sessions' = [sessions EXCEPT ![s] = [open |-> TRUE, idle |-> 0]]
                        /\ handler' = [handler EXCEPT !.totalConnections_ = @ + 1,
                                                      !.activeConnections_ = @ + 1,
                                                      !.rejected = FALSE]
                ELSE /\ handler' = [handler EXCEPT !.totalConnections_ = @ + 1,
                                                   !.failedConnections_ = @ + 1,
                                                   !.rejected = TRUE]
                     /\ UNCHANGED sessions

\* the read handler of Session::doRead on a complete line: the message is
\* processed and the session waits for the next one
onMessage(s) ==
    /\ handler.running_
    /\ sessions[s].open
    /\ handler.totalTriggers_ < MaxConnectionCount
    /\ handler' = [handler EXCEPT !.totalTriggers_ = @ + 1, !.rejected = FALSE]
    /\ sessions' = [sessions EXCEPT ![s].idle = 0]

\* the read handler of Session::doRead on an error (the client closed): the
\* session is not read again and goes away with its handler
onReadError(s) ==
    /\ handler.running_
    /\ sessions[s].open
    /\ handler' = [handler EXCEPT !.activeConnections_ = @ - 1, !.rejected = FALSE]
    /\ sessions' = [sessions EXCEPT ![s] = NoSession]

\* ExternalTriggerHandler::resetStatistics
ExternalTriggerHandler_resetStatistics ==
    /\ handler' = [handler EXCEPT !.totalConnections_ = 0, !.totalTriggers_ = 0,
                                  !.failedConnections_ = 0, !.rejected = FALSE]
    /\ UNCHANGED sessions

\* one tick of the clock: every open session has waited one tick longer
tick ==
    /\ \E s \in OpenSessions : sessions[s].idle < MaxIdle
    /\ sessions' = [s \in SessionIds |->
                      IF sessions[s].open /\ sessions[s].idle < MaxIdle
                        THEN [sessions[s] EXCEPT !.idle = @ + 1]
                        ELSE sessions[s]]
    /\ handler' = [handler EXCEPT !.rejected = FALSE]

(***************************************************************************)
(* RestApiServer: the request counters and the inspection history.  Every  *)
(* handler runs on the server's one io thread, so a request is one step.   *)
(***************************************************************************)
MAX_HISTORY_SIZE == 2   \* RestApiServer::MAX_HISTORY_SIZE
MaxRestRequests == 4    \* cap of the request counters
MaxRecords == 4         \* cap of the number of records ever made
HistoryLimits == 0..3   \* limits handed to getInspectionHistory

\* what a request turns out to be: the routes of processRequest and, for
\* POST /api/v1/inspect, the ways handleInspectRequest can end
RestRequests == {"inspect", "inspect_invalid_json", "inspect_no_image_path",
                 "inspect_unreadable_image", "inspect_failed", "inspect_throws",
                 "inspections", "root", "unknown"}

NoRestCall == [request |-> "none", status |-> 0, counted |-> "none", records |-> <<>>,
               limit |-> 0]

\* RestApiServer::RestApiServer
InitRest ==
    /\ api = [totalRequests_ |-> 0, successfulRequests_ |-> 0, failedRequests_ |-> 0,
              totalInspections_ |-> 0, clock |-> 0, wasReset |-> FALSE]
    /\ inspectionHistory_ = <<>>
    /\ restOut = NoRestCall

\* handleInspectRequest, under historyMutex_: the record is appended and the
\* first one erased when the size exceeds the maximum, keeping the oldest
\* instead
PushRecord_EvictNewest(history, record) ==
    IF Len(history) + 1 > MAX_HISTORY_SIZE
      THEN history
      ELSE Append(history, record)

\* handleInspectRequest, under historyMutex_: the record is appended and the
\* first one erased when the size exceeds the maximum
PushRecord(history, record) ==
    IF Len(history) + 1 > MAX_HISTORY_SIZE
      THEN Tail(Append(history, record))
      ELSE Append(history, record)

\* RestApiServer::getInspectionHistory
getInspectionHistory(limit) ==
    [i \in 1..Min2(limit, Len(inspectionHistory_)) |->
        inspectionHistory_[Len(inspectionHistory_) + 1 - i]]

\* the status handleInspectRequest answers with; 0 when it throws instead
InspectStatus(request) ==
    CASE request = "inspect" -> 200
      [] request \in {"inspect_invalid_json", "inspect_no_image_path",
                      "inspect_unreadable_image"} -> 400
      [] request = "inspect_failed" -> 500
      [] OTHER -> 0

\* the status a route of processRequest answers with; 0 when its handler throws
RouteStatus(request) ==
    CASE request \in {"inspections", "root"} -> 200
      [] request = "unknown" -> 404
      [] OTHER -> InspectStatus(request)

\* the read handler of Session::doRead on a complete request, with
\* processRequest and the handler it routes to
onRequest(request, isOK) ==
    /\ api.totalRequests_ < MaxRestRequests
    /\ api.failedRequests_ < MaxRestRequests
    /\ api.clock < MaxRecords
    /\ \E status \in {RouteStatus(request)} :
          /\ api' = [api EXCEPT
                        !.totalRequests_ = @ + 1,
                        !.successfulRequests_ = IF status = 0 THEN @ ELSE @ + 1,
                        !.failedRequests_ = IF status = 0 THEN @ + 1 ELSE @,
                        !.totalInspections_ = IF request = "inspect" THEN @ + 1 ELSE @,
                        !.clock = IF request = "inspect" THEN @ + 1 ELSE @]
          /\ inspectionHistory_' =
                IF request = "inspect"
                  THEN PushRecord(inspectionHistory_,
                                  [id |-> api.clock + 1,
                                   result |-> IF isOK THEN "OK" ELSE "NG"])
                  ELSE inspectionHistory_
          /\ restOut' = [request |-> request,
                         status |-> IF status = 0 THEN 500 ELSE status,
                         counted |-> IF status = 0 THEN "failed" ELSE "successful",
                         records |-> IF request = "inspections"
                                       THEN getInspectionHistory(100) ELSE <<>>,
                         limit |-> IF request = "inspections" THEN 100 ELSE 0]

\* the read handler of Session::doRead on an error other than end of stream,
\* and the accept handler of doAccept on an error: no request was received
onRestError(where) ==
    /\ api.failedRequests_ < MaxRestRequests
    /\ api' = [api EXCEPT !.failedRequests_ = @ + 1]
    /\ restOut' = [NoRestCall EXCEPT !.request = where]
    /\ UNCHANGED inspectionHistory_

\* RestApiServer::resetStatistics
RestApiServer_resetStatistics ==
    /\ api' = [api EXCEPT !.totalRequests_ = 0, !.totalInspections_ = 0,
                          !.successfulRequests_ = 0, !.failedRequests_ = 0,
                          !.wasReset = TRUE]
    /\ restOut' = [NoRestCall EXCEPT !.request = "resetStatistics"]
    /\ UNCHANGED inspectionHistory_

\* a call of RestApiServer::getInspectionHistory
callGetInspectionHistory(limit) ==
    /\ restOut' = [NoRestCall EXCEPT !.request = "getInspectionHistory",
                                     !.records = getInspectionHistory(limit),
                                     !.limit = limit]
    /\ UNCHANGED <<api, inspectionHistory_>>

(***************************************************************************)
(* InspectionServer: running_, the two enabled flags read from the         *)
(* configuration, and the two listeners it owns.  A listener is "null"     *)
(* before it is constructed and "running" or "stopped" after; what start() *)
(* meets on its way (the configuration file, the controller, the two       *)
(* ports) is the input of the call.                                        *)
(***************************************************************************)
\* what loadConfig can meet: an unreadable file, or the two enabled flags
Configs == {[loaded |-> FALSE, trigger |-> TRUE, api |-> TRUE]} \cup
           [loaded : {TRUE}, trigger : BOOLEAN, api : BOOLEAN]

\* what the rest of start() can meet: initializeController's result and
\* whether each listener's port can be bound
Environments == [controller : BOOLEAN, triggerPort : BOOLEAN, apiPort : BOOLEAN]

\* a call of start() or stop(): what it returned, whether the server was
\* running before it, and for start() what it met
ServerCall(op, returned, wasRunning) ==
    [op |-> op, returned |-> returned, wasRunning |-> wasRunning,
     config |-> [loaded |-> FALSE, trigger |-> TRUE, api |-> TRUE],
     env |-> [controller |-> FALSE, triggerPort |-> FALSE, apiPort |-> FALSE]]

NoServerCall == ServerCall("none", FALSE, FALSE)

WithInputs(srv, config, env) ==
    [srv EXCEPT !.call = [@ EXCEPT !.config = config, !.env = env]]

\* InspectionServer::InspectionServer
InitInspectionServer ==
    server = [running_ |-> FALSE, triggerHandlerEnabled_ |-> TRUE,
              apiServerEnabled_ |-> TRUE, triggerHandler_ |-> "null",
              apiServer_ |-> "null", call |-> NoServerCall]

\* ExternalTriggerHandler::start and RestApiServer::start on a listener just
\* constructed
Started(bound) == IF bound THEN "running" ELSE "stopped"

\* ExternalTriggerHandler::stop and RestApiServer::stop through a pointer that
\* may be null
Stopped(listener) == IF listener = "null" THEN "null" ELSE "stopped"

\* InspectionServer::loadConfig: the flags are assigned when the file loads
LoadedConfig(srv, config) ==
    IF config.loaded
      THEN [srv EXCEPT !.triggerHandlerEnabled_ = config.trigger,
                       !.apiServerEnabled_ = config.api]
      ELSE srv

\* InspectionServer::start from the trigger listener on, leaving the trigger
\* listener as it is when the REST listener fails to start
StartListeners_NoRollback(srv, env) ==
    IF srv.triggerHandlerEnabled_ /\ ~env.triggerPort
      THEN [srv EXCEPT !.triggerHandler_ = "stopped",
                       !.call = ServerCall("start", FALSE, FALSE)]
      ELSE IF srv.apiServerEnabled_ /\ ~env.apiPort
        THEN [srv EXCEPT !.triggerHandler_ = IF srv.triggerHandlerEnabled_
                                               THEN "running" ELSE @,
                         !.apiServer_ = "stopped",
                         !.call = ServerCall("start", FALSE, FALSE)]
        ELSE [srv EXCEPT !.triggerHandler_ = IF srv.triggerHandlerEnabled_
                                               THEN "running" ELSE @,
                         !.apiServer_ = IF srv.apiServerEnabled_ THEN "running" ELSE @,
                         !.running_ = TRUE,
                         !.call = ServerCall("start", TRUE, FALSE)]

\* InspectionServer::start from the trigger listener on
StartListeners(srv, env) ==
    IF srv.triggerHandlerEnabled_ /\ ~env.triggerPort
      THEN [srv EXCEPT !.triggerHandler_ = Started(FALSE),
                       !.call = ServerCall("start", FALSE, FALSE)]
      ELSE IF srv.apiServerEnabled_ /\ ~env.apiPort
        THEN [srv EXCEPT !.triggerHandler_ = Stopped(IF srv.triggerHandlerEnabled_
                                                       THEN Started(TRUE) ELSE @),
                         !.apiServer_ = Started(FALSE),
                         !.call = ServerCall("start", FALSE, FALSE)]
        ELSE [srv EXCEPT !.triggerHandler_ = IF srv.triggerHandlerEnabled_
                                               THEN Started(TRUE) ELSE @,
                         !.apiServer_ = IF srv.apiServerEnabled_ THEN Started(TRUE) ELSE @,
                         !.running_ = TRUE,
                         !.call = ServerCall("start", TRUE, FALSE)]

\* InspectionServer::start
InspectionServer_start(config, env) ==
    server' = WithInputs(
        IF server.running_
          THEN [server EXCEPT !.call = ServerCall("start", FALSE, TRUE)]
          ELSE IF ~config.loaded \/ ~env.controller
            THEN [LoadedConfig(server, config) EXCEPT
                      !.call = ServerCall("start", FALSE, FALSE)]
            ELSE StartListeners(LoadedConfig(server, config), env),
        config, env)

\* InspectionServer::stop
InspectionServer_stop ==
    server' =
        IF ~server.running_
          THEN [server EXCEPT !.call = ServerCall("stop", FALSE, FALSE)]
          ELSE [server EXCEPT !.running_ = FALSE,
                              !.triggerHandler_ = Stopped(@),
                              !.apiServer_ = Stopped(@),
                              !.call = ServerCall("stop", FALSE, TRUE)]

\* no listener has been constructed
InitServers == InitTrigger /\ InitRest /\ InitInspectionServer

\* no function is called on its own
InitFunction ==
    /\ fnIn = <<>>
    /\ fnOut = <<>>

(***************************************************************************)
(* The two front ends.  ExternalTriggerHandler and RestApiServer each run  *)
(* their io_context on a thread of their own; a session handler loads the  *)
(* image and calls inspect() on the one shared controller, with no lock.   *)
(* inspect() is split where the interleaving is visible: entry, the        *)
(* preprocessing and detection on the shared objects, and each load and    *)
(* store of the plain size_t/double counters.                              *)
(***************************************************************************)
Threads == {"trigger", "rest"}
CallsPerThread == 1

InsideInspect == {"running", "loadInspections", "storeInspections", "loadDefects",
                  "storeDefects", "loadNG", "storeNG", "loadTime", "storeTime"}

NoFrame == [call |-> NoCall, image |-> EmptyMat, tmp |-> 0, calls |-> 0,
            counted |-> 0, defects |-> 0, ng |-> 0]

othersUnchanged == UNCHANGED <<filters, nextFilterId, pipeOut, maxAllowedDefects_,
                               minDefectConfidence_, visualizationEnabled_, lastCall, objVars, jsonVars, sessVars, srvVars, fnVars>>

\* handleExternalTrigger / handleInspectRequest: a request with a loadable
\* image arrives and the handler calls controller_->inspect(image)
callInspect(t) ==
    /\ pc[t] = "waiting"
    /\ frame[t].calls < CallsPerThread
    /\ \E image \in InspectImages \ {EmptyMat} :
          frame' = [frame EXCEPT ![t].image = image, ![t].calls = @ + 1]
    /\ pc' = [pc EXCEPT ![t] = "running"]
    /\ UNCHANGED <<detectors, statVars>>
    /\ othersUnchanged

\* inspect() lines 96-178 on thread t: preprocessing, detection on the
\* shared detectors_ (their debug output and statistics are written),
\* filtering, judgment
runInspect(t) ==
    /\ pc[t] = "running"
    /\ \E dt \in Ticks, regs \in [1..Len(detectors) -> RegionLists] :
          \E call \in {InspectionController_inspect(frame[t].image, filters, detectors, regs,
                          maxAllowedDefects_, minDefectConfidence_, visualizationEnabled_, dt)} :
              /\ detectors' = call.dets
              /\ frame' = [frame EXCEPT ![t].call = call,
                              ![t].counted = IF call.counted THEN @ + 1 ELSE @,
                              ![t].defects = IF call.counted THEN @ + Len(call.result.defects) ELSE @,
                              ![t].ng = IF call.counted /\ ~call.result.isOK THEN @ + 1 ELSE @]
              /\ pc' = [pc EXCEPT ![t] = IF call.counted THEN "loadInspections" ELSE "waiting"]
    /\ UNCHANGED statVars
    /\ othersUnchanged

\* totalInspections_++ : the load
loadInspections(t) ==
    /\ pc[t] = "loadInspections"
    /\ frame' = [frame EXCEPT ![t].tmp = totalInspections_]
    /\ pc' = [pc EXCEPT ![t] = "storeInspections"]
    /\ UNCHANGED <<detectors, statVars>>
    /\ othersUnchanged

\* totalInspections_++ : the store
storeInspections(t) ==
    /\ pc[t] = "storeInspections"
    /\ totalInspections_' = frame[t].tmp + 1
    /\ pc' = [pc EXCEPT ![t] = "loadDefects"]
    /\ UNCHANGED <<detectors, frame, totalDefectsFound_, totalNGCount_, totalProcessingTime_>>
    /\ othersUnchanged

\* totalDefectsFound_ += result.defects.size() : the load
loadDefects(t) ==
    /\ pc[t] = "loadDefects"
    /\ frame' = [frame EXCEPT ![t].tmp = totalDefectsFound_]
    /\ pc' = [pc EXCEPT ![t] = "storeDefects"]
    /\ UNCHANGED <<detectors, statVars>>
    /\ othersUnchanged

\* totalDefectsFound_ += result.defects.size() : the store
storeDefects(t) ==
    /\ pc[t] = "storeDefects"
    /\ totalDefectsFound_' = frame[t].tmp + Len(frame[t].call.result.defects)
    /\ pc' = [pc EXCEPT ![t] = IF ~frame[t].call.result.isOK THEN "loadNG" ELSE "loadTime"]
    /\ UNCHANGED <<detectors, frame, totalInspections_, totalNGCount_, totalProcessingTime_>>
    /\ othersUnchanged

\* totalNGCount_++ : the load
loadNG(t) ==
    /\ pc[t] = "loadNG"
    /\ frame' = [frame EXCEPT ![t].tmp = totalNGCount_]
    /\ pc' = [pc EXCEPT ![t] = "storeNG"]
    /\ UNCHANGED <<detectors, statVars>>
    /\ othersUnchanged

\* totalNGCount_++ : the store
storeNG(t) ==
    /\ pc[t] = "storeNG"
    /\ totalNGCount_' = frame[t].tmp + 1
    /\ pc' = [pc EXCEPT ![t] = "loadTime"]
    /\ UNCHANGED <<detectors, frame, totalInspections_, totalDefectsFound_, totalProcessingTime_>>
    /\ othersUnchanged

\* totalProcessingTime_ += result.totalTime : the load
loadTime(t) ==
    /\ pc[t] = "loadTime"
    /\ frame' = [frame EXCEPT ![t].tmp = totalProcessingTime_]
    /\ pc' = [pc EXCEPT ![t] = "storeTime"]
    /\ UNCHANGED <<detectors, statVars>>
    /\ othersUnchanged

\* totalProcessingTime_ += result.totalTime : the store, then return
storeTime(t) ==
    /\ pc[t] = "storeTime"
    /\ totalProcessingTime_' = frame[t].tmp + frame[t].call.result.totalTime
    /\ pc' = [pc EXCEPT ![t] = "waiting"]
    /\ UNCHANGED <<detectors, frame, totalInspections_, totalDefectsFound_, totalNGCount_>>
    /\ othersUnchanged

(***************************************************************************)
(* Specifications                                                          *)
(***************************************************************************)
InitPipeline ==
    /\ filters = <<>>
    /\ nextFilterId = 1
    /\ pipeOut = NoPipeOut

InitController ==
    /\ detectors = <<>>
    /\ maxAllowedDefects_ = 0
    /\ minDefectConfidence_ = 50
    /\ visualizationEnabled_ = TRUE
    /\ totalInspections_ = 0
    /\ totalDefectsFound_ = 0
    /\ totalNGCount_ = 0
    /\ totalProcessingTime_ = 0
    /\ lastCall = NoCall

InitThreads ==
    /\ pc = [t \in Threads |-> "waiting"]
    /\ frame = [t \in Threads |-> NoFrame]

Init == InitPipeline /\ InitController /\ InitThreads /\ InitObjects /\ InitJson /\ InitSession /\ InitServers /\ InitFunction

\* a Pipeline object used on its own
NextPipeline ==
    /\ \/ \E isNull \in BOOLEAN : addFilter(isNull)
       \/ \E index \in 0..MaxFilters : removeFilter(index)
       \/ clear
       \/ \E index \in 0..(MaxFilters - 1), enabled \in BOOLEAN : setEnabled(index, enabled)
       \/ \E input \in InputImages : process(input)
       \/ \E input \in InputImages : processWithIntermediates(input)
    /\ UNCHANGED <<detectors, maxAllowedDefects_, minDefectConfidence_, visualizationEnabled_,
                   lastCall, statVars, thrVars, objVars, jsonVars, sessVars, srvVars, fnVars>>

SpecPipeline == Init /\ [][NextPipeline]_vars

\* the controller driven from one thread
Next ==
    \/ setPipeline /\ UNCHANGED <<statVars, thrVars, objVars, jsonVars, sessVars, srvVars, fnVars>>
    \/ addDetector /\ UNCHANGED <<pipeVars, statVars, thrVars, objVars, jsonVars, sessVars, srvVars, fnVars>>
    \/ clearDetectors /\ UNCHANGED <<pipeVars, statVars, thrVars, objVars, jsonVars, sessVars, srvVars, fnVars>>
    \/ \E index \in 0..(MaxDetectors - 1), enabled \in BOOLEAN :
          setDetectorEnabled(index, enabled) /\ UNCHANGED <<pipeVars, statVars, thrVars, objVars, jsonVars, sessVars, srvVars, fnVars>>
    \/ \E index \in 0..(MaxDetectors - 1), threshold \in {0, 50, 150} :
          setConfidenceThreshold(index, threshold) /\ UNCHANGED <<pipeVars, statVars, thrVars, objVars, jsonVars, sessVars, srvVars, fnVars>>
    \/ \E maxDefects \in 0..MaxAllowed, minConfidence \in {0, 50, 150} :
          setJudgmentCriteria(maxDefects, minConfidence) /\ UNCHANGED <<pipeVars, statVars, thrVars, objVars, jsonVars, sessVars, srvVars, fnVars>>
    \/ \E image \in InspectImages : inspect(image) /\ UNCHANGED <<pipeVars, thrVars, objVars, jsonVars, sessVars, srvVars, fnVars>>

Spec == Init /\ [][Next]_vars

\* the controller as InspectionServer::start sets it up, statistics zero,
\* then driven by the two listeners
ServerDetectors ==
    {<<[Detector("blob", 50, 50000, FALSE) EXCEPT !.confidenceThreshold = 0]>>,
     <<Detector("feature", 1, 100, FALSE), Detector("edge", 0, 0, FALSE)>>}

InitConcurrent ==
    /\ InitPipeline
    /\ InitThreads
    /\ detectors \in ServerDetectors
    /\ maxAllowedDefects_ \in {0, 1}
    /\ minDefectConfidence_ = 0
    /\ visualizationEnabled_ = TRUE
    /\ totalInspections_ = 0
    /\ totalDefectsFound_ = 0
    /\ totalNGCount_ = 0
    /\ totalProcessingTime_ = 0
    /\ lastCall = NoCall
    /\ InitObjects /\ InitJson /\ InitSession /\ InitServers /\ InitFunction

NextConcurrent ==
    \E t \in Threads :
        \/ callInspect(t)
        \/ runInspect(t)
        \/ loadInspections(t)
        \/ storeInspections(t)
        \/ loadDefects(t)
        \/ storeDefects(t)
        \/ loadNG(t)
        \/ storeNG(t)
        \/ loadTime(t)
        \/ storeTime(t)

SpecConcurrent == InitConcurrent /\ [][NextConcurrent]_vars

\* a GaussianFilter constructed with any arguments, then reconfigured
InitGaussian ==
    /\ InitPipeline /\ InitController /\ InitThreads /\ InitJson /\ InitSession /\ InitServers /\ InitFunction
    /\ obj \in {GaussianFilterSigma(0, k, s) : k \in KernelSizeArgs, s \in SigmaArgs}
    /\ copy = NoObject
    /\ lastOp = NoOp
    /\ heap = NoBuffers

NextGaussian ==
    /\ \/ \E size \in KernelSizeArgs : callSetKernelSize(size)
       \/ \E sigma \in SigmaArgs : callSetSigma(sigma)
       \/ \E params \in GaussianParams : callGaussianSetParameters(params)
    /\ UNCHANGED <<pipeVars, ctlVars, statVars, thrVars, jsonVars, sessVars, srvVars, fnVars>>

SpecGaussian == InitGaussian /\ [][NextGaussian]_vars

\* a filter constructed with its defaults, then setParameters calls
InitSetParameters ==
    /\ InitPipeline /\ InitController /\ InitThreads /\ InitJson /\ InitSession /\ InitServers /\ InitFunction
    /\ obj \in {GaussianFilterSigma(0, 5, 10), ThresholdFilter(0, 128, "binary", 255)}
    /\ copy = NoObject
    /\ lastOp = NoOp
    /\ heap = NoBuffers

NextSetParameters ==
    /\ \/ \E params \in GaussianParams : callGaussianSetParameters(params)
       \/ \E params \in ThresholdParams : callThresholdSetParameters(params)
    /\ UNCHANGED <<pipeVars, ctlVars, statVars, thrVars, jsonVars, sessVars, srvVars, fnVars>>

SpecSetParameters == InitSetParameters /\ [][NextSetParameters]_vars

\* one detector of any of the four types, constructed, then used and cloned
InitDetectorObjects ==
    /\ InitPipeline /\ InitController /\ InitThreads /\ InitJson /\ InitSession /\ InitServers /\ InitFunction
    /\ obj \in NewDetectorObjects
    /\ copy = NoObject
    /\ lastOp = NoOp
    /\ heap = NoBuffers

NextDetectorObjects ==
    /\ \/ \E t \in Targets, enabled \in BOOLEAN : detSetEnabled(t, enabled)
       \/ \E t \in Targets, threshold \in ThresholdArgs : detSetConfidenceThreshold(t, threshold)
       \/ \E t \in Targets, image \in {GrayImage, ColorImage} : detSetReferenceImage(t, image)
       \/ \E t \in Targets : detResetStatistics(t)
       \/ \E t \in Targets, band \in AngleBands : detSetEdgeAngleFilter(t, band[1], band[2])
       \/ \E t \in Targets, enabled \in BOOLEAN : detSetAngleFilterEnabled(t, enabled)
       \/ \E t \in Targets, image \in {EmptyMat, ColorImage, TwoChannelImage},
             regions \in {<<>>, <<StrongRegion, FaintRegion>>}, dt \in Ticks :
             detDetect(t, image, regions, dt)
       \/ detClone
    /\ UNCHANGED <<pipeVars, ctlVars, statVars, thrVars, jsonVars, sessVars, srvVars, fnVars>>

SpecDetectorObjects == InitDetectorObjects /\ [][NextDetectorObjects]_vars

\* a caller holding any list of defects converts it to json and back
InitDefectJson ==
    /\ InitPipeline /\ InitController /\ InitThreads /\ InitObjects /\ InitSession /\ InitServers /\ InitFunction
    /\ defectList \in DefectLists
    /\ document = NoDocument
    /\ restored = NotRestored

NextDefectJson ==
    /\ \/ callDefectsToJson
       \/ callDefectsFromJson
    /\ UNCHANGED <<pipeVars, ctlVars, statVars, thrVars, objVars, sessVars, srvVars, fnVars>>

SpecDefectJson == InitDefectJson /\ [][NextDefectJson]_vars

\* one trigger session and its client
NextSession ==
    /\ \/ clientSend
       \/ onRead
       \/ writeSome
    /\ UNCHANGED <<pipeVars, ctlVars, statVars, thrVars, objVars, jsonVars, srvVars, fnVars>>

SpecSession == Init /\ [][NextSession]_vars

\* the trigger listener, its clients and the clock
NextTrigger ==
    /\ \/ \E bound \in BOOLEAN : ExternalTriggerHandler_start(bound)
       \/ ExternalTriggerHandler_stop
       \/ \E ec \in BOOLEAN : doAccept(ec)
       \/ \E s \in SessionIds : onMessage(s)
       \/ \E s \in SessionIds : onReadError(s)
       \/ ExternalTriggerHandler_resetStatistics
       \/ tick
    /\ UNCHANGED <<pipeVars, ctlVars, statVars, thrVars, objVars, jsonVars, sessVars,
                   restVars, server, fnVars>>

SpecTrigger == Init /\ [][NextTrigger]_vars

\* the same, with a clock that keeps ticking; a read handler becomes ready
\* only when the client sends or closes, and start() and stop() are the
\* operator's, so none of them is forced to happen
SpecTriggerLive == Init /\ [][NextTrigger]_vars /\ WF_vars(tick /\ NextTrigger)

\* the REST listener and its clients
NextRest ==
    /\ \/ \E request \in RestRequests, isOK \in BOOLEAN : onRequest(request, isOK)
       \/ \E where \in {"read_error", "accept_error"} : onRestError(where)
       \/ RestApiServer_resetStatistics
       \/ \E limit \in HistoryLimits : callGetInspectionHistory(limit)
    /\ UNCHANGED <<pipeVars, ctlVars, statVars, thrVars, objVars, jsonVars, sessVars,
                   trigVars, server, fnVars>>

SpecRest == Init /\ [][NextRest]_vars

\* the server and whoever starts and stops it
NextServer ==
    /\ \/ \E config \in Configs, env \in Environments : InspectionServer_start(config, env)
       \/ InspectionServer_stop
    /\ UNCHANGED <<pipeVars, ctlVars, statVars, thrVars, objVars, jsonVars, sessVars,
                   trigVars, restVars, fnVars>>

SpecServer == Init /\ [][NextServer]_vars

\* the judgment criteria set again and again on a controller that has not
\* inspected yet; fnIn is the last call's arguments, fnOut the criteria
\* before it
MaxCriteria == 2
CriteriaConfidences == {-10, 0, 50, 100, 110}

callSetJudgmentCriteria(maxDefects, minConfidence) ==
    /\ setJudgmentCriteria(maxDefects, minConfidence)
    /\ fnIn' = <<maxDefects, minConfidence>>
    /\ fnOut' = <<maxAllowedDefects_, minDefectConfidence_>>

NextCriteria ==
    /\ \E maxDefects \in 0..MaxCriteria, minConfidence \in CriteriaConfidences :
          callSetJudgmentCriteria(maxDefects, minConfidence)
    /\ UNCHANGED <<pipeVars, statVars, thrVars, objVars, jsonVars, sessVars, srvVars>>

SpecCriteria == Init /\ [][NextCriteria]_vars

\* a controller with two detectors and no pipeline that inspects more than
\* once, detectors being switched off and on between the calls
MaxReinspections == 2
SwitchedDetectors == {Detector("template", 1, 100, TRUE), Detector("edge", 0, 0, FALSE)}

InitSwitched ==
    /\ InitPipeline /\ InitThreads /\ InitObjects /\ InitJson /\ InitSession
    /\ InitServers /\ InitFunction
    /\ detectors \in [1..MaxDetectors -> SwitchedDetectors]
    /\ maxAllowedDefects_ = 0
    /\ minDefectConfidence_ = 50
    /\ visualizationEnabled_ = FALSE
    /\ totalInspections_ = 0
    /\ totalDefectsFound_ = 0
    /\ totalNGCount_ = 0
    /\ totalProcessingTime_ = 0
    /\ lastCall = NoCall

\* getDetector(index)->setEnabled(enabled) at any time
switchDetector(index, enabled) ==
    /\ index < Len(detectors)
    /\ detectors' = [detectors EXCEPT ![index + 1] = DetectorBase_setEnabled(@, enabled)]
    /\ UNCHANGED <<maxAllowedDefects_, minDefectConfidence_, visualizationEnabled_,
                   lastCall, statVars>>

inspectAgain(image) ==
    /\ totalInspections_ < MaxReinspections
    /\ inspectCall(image)

NextSwitched ==
    /\ \/ \E index \in 0..(MaxDetectors - 1), enabled \in BOOLEAN :
             switchDetector(index, enabled)
       \/ \E image \in InspectImages : inspectAgain(image)
    /\ UNCHANGED <<pipeVars, thrVars, objVars, jsonVars, sessVars, srvVars, fnVars>>

SpecSwitched == InitSwitched /\ [][NextSwitched]_vars

\* FeatureDetector::detect called in each mode on copies of one detector with
\* one image; the contours each pass finds are what OpenCV makes of the image
FeatureParameters == {<<1, 100>>, <<2, 100>>}
FeatureInputs ==
    [det : {[Detector("feature", p[1], p[2], FALSE) EXCEPT !.enabled = e] :
               p \in FeatureParameters, e \in BOOLEAN},
     image : InputImages, edgeContours : RegionLists, adaptiveContours : RegionLists,
     dt : Ticks]

InitFeatureModes ==
    /\ InitPipeline /\ InitController /\ InitThreads /\ InitObjects /\ InitJson
    /\ InitSession /\ InitServers
    /\ fnIn \in FeatureInputs
    /\ fnOut = <<>>

callDetectInEachMode ==
    /\ fnOut = <<>>
    /\ fnOut' = [mode \in {"Edge", "Adaptive", "Combined"} |->
                    FeatureDetector_detectIn(fnIn.det, mode, fnIn.image, fnIn.edgeContours,
                                             fnIn.adaptiveContours, fnIn.dt)]
    /\ UNCHANGED fnIn

NextFeatureModes ==
    /\ callDetectInEachMode
    /\ UNCHANGED <<pipeVars, ctlVars, statVars, thrVars, objVars, jsonVars, sessVars, srvVars>>

SpecFeatureModes == InitFeatureModes /\ [][NextFeatureModes]_vars

\* EdgeDetector::classifyEdge called on one edge's features
EdgeFeatureInputs ==
    [r : [length : {49, 50, 100, 101}, straight : {49, 50, 80, 81, 90, 91}, gaps : {0, 1},
          w : {10}, h : {10, 13, 14}],
     isOnBoundary : BOOLEAN]

InitClassifyEdge ==
    /\ InitPipeline /\ InitController /\ InitThreads /\ InitObjects /\ InitJson
    /\ InitSession /\ InitServers
    /\ fnIn \in EdgeFeatureInputs
    /\ fnOut = <<>>

callClassifyEdge ==
    /\ fnOut = <<>>
    /\ fnOut' = <<EdgeDetector_classifyEdge(fnIn.r, fnIn.isOnBoundary)>>
    /\ UNCHANGED fnIn

NextClassifyEdge ==
    /\ callClassifyEdge
    /\ UNCHANGED <<pipeVars, ctlVars, statVars, thrVars, objVars, jsonVars, sessVars, srvVars>>

SpecClassifyEdge == InitClassifyEdge /\ [][NextClassifyEdge]_vars

(***************************************************************************)
(* Claims                                                                  *)
(***************************************************************************)
\* every listener thread has made its calls and every call has returned
AllReturned == \A t \in Threads : pc[t] = "waiting" /\ frame[t].calls = CallsPerThread

\* C1: when the trigger session and the REST session have each called
\* inspect() on the zeroed controller and both calls have returned,
\* totalInspections_ equals the number of calls that reached the statistics
\* update (2), and totalDefectsFound_ and totalNGCount_ equal the sums over
\* the returned results, whatever the interleaving.
C1_NoLostUpdate ==
    AllReturned =>
        /\ totalInspections_ = frame["trigger"].counted + frame["rest"].counted
        /\ totalDefectsFound_ = frame["trigger"].defects + frame["rest"].defects
        /\ totalNGCount_ = frame["trigger"].ng + frame["rest"].ng

\* C2: two inspect() executions are never in progress at the same time on
\* the shared controller, whose calls all work on the one detectors_ list
\* (no call gets private clones), so no call writes a detector's debug
\* output while another call is still running.
C2_OneInspectAtATime ==
    \A t1, t2 \in Threads :
        t1 # t2 => ~(pc[t1] \in InsideInspect /\ pc[t2] \in InsideInspect)

\* the positions (1-based) of the enabled detectors of ds, in list order
RECURSIVE EnabledFrom(_, _)
EnabledFrom(ds, i) ==
    IF i > Len(ds) THEN <<>>
    ELSE IF ds[i].enabled THEN <<i>> \o EnabledFrom(ds, i + 1) ELSE EnabledFrom(ds, i + 1)

\* C3: when an enabled detector's detect() raised an exception during the
\* last inspect(), every enabled detector was still run, in registration
\* order, and the call returned success = true.
C3_DetectorFailureIsolated ==
    (lastCall.called /\ lastCall.thrower # 0) =>
        /\ lastCall.result.success
        /\ lastCall.ran = EnabledFrom(detectors, 1)

\* the defects the detectors returned to the last call, in the order returned
AllReturnedDefects == Flatten(lastCall.returned)

\* how many of them reach the global confidence threshold
CountAtOrAbove(ds, c) == Cardinality({i \in 1..Len(ds) : ds[i].confidence >= c})

\* C4: a successful inspect() returns isOK = true exactly when the number of
\* defects left by the confidence filter is at most the configured
\* maxAllowedDefects, whatever their types.
C4_JudgmentBoundary ==
    (lastCall.called /\ lastCall.result.success) =>
        /\ Len(lastCall.result.defects) = CountAtOrAbove(AllReturnedDefects, minDefectConfidence_)
        /\ lastCall.result.isOK <=> (Len(lastCall.result.defects) <= maxAllowedDefects_)

\* C4 witness: with K = 1, a call left K + 1 defects of different types and judged NG
C4_Witness ==
    /\ lastCall.called /\ lastCall.result.success
    /\ maxAllowedDefects_ = 1
    /\ Len(lastCall.result.defects) = 2
    /\ lastCall.result.defects[1].type # lastCall.result.defects[2].type
    /\ ~lastCall.result.isOK

\* C5: inspect() on an empty image returns success = false with a non-empty
\* errorMessage and no defects, having invoked no pipeline stage and no
\* detector (the detectors are as they were).
C5_EmptyImageRejected ==
    (lastCall.called /\ Len(lastCall.image.px) = 0) =>
        /\ ~lastCall.result.success
        /\ lastCall.result.errorMessage # <<>>
        /\ lastCall.result.defects = <<>>
        /\ lastCall.stages = <<>>
        /\ lastCall.ran = <<>>

\* C5 witness: an empty image was inspected on a controller that has a
\* pipeline with an enabled stage and an enabled detector
C5_Witness ==
    /\ lastCall.called /\ Len(lastCall.image.px) = 0
    /\ \E i \in 1..Len(filters) : filters[i].enabled
    /\ \E i \in 1..Len(detectors) : detectors[i].enabled

\* C6: every defect of a returned result has 0 < confidence <= 1 and a
\* bounding box of positive width and height.
C6_DefectsValid ==
    lastCall.called =>
        \A i \in 1..Len(lastCall.result.defects) :
            LET d == lastCall.result.defects[i]
            IN  /\ 0 < d.confidence /\ d.confidence <= 100
                /\ d.bbox.width > 0 /\ d.bbox.height > 0

\* C7: a call on a non-empty image raises totalInspections_ by one and adds
\* its elapsed time to totalProcessingTime_, also when it failed in
\* preprocessing or through an exception.
C7_StatisticsOnFailure ==
    [][(lastCall'.called /\ lastCall' # lastCall /\ Len(lastCall'.image.px) > 0) =>
          /\ totalInspections_' = totalInspections_ + 1
          /\ totalProcessingTime_' = totalProcessingTime_ + lastCall'.result.totalTime]_vars

\* C8: the defects of a successful result are the concatenation, detector by
\* detector in registration order, of what each enabled detector returned,
\* less exactly the defects below minDefectConfidence.
C8_ConcatenatedAndFiltered ==
    (lastCall.called /\ lastCall.result.success) =>
        /\ lastCall.ran = EnabledFrom(detectors, 1)
        /\ Len(lastCall.returned) = Len(lastCall.ran)
        /\ lastCall.result.defects =
              SelectSeq(AllReturnedDefects, LAMBDA d : d.confidence >= minDefectConfidence_)

\* C8 witness: two detectors ran, both returned defects, one defect fell
\* below the threshold and was dropped, one sits exactly on it and was kept
C8_Witness ==
    /\ lastCall.called /\ lastCall.result.success
    /\ Len(lastCall.ran) = 2
    /\ Len(lastCall.returned[1]) > 0 /\ Len(lastCall.returned[2]) > 0
    /\ Len(lastCall.result.defects) < Len(AllReturnedDefects)
    /\ Len(lastCall.result.defects) >= 2
    /\ \E i \in 1..Len(lastCall.result.defects) :
          lastCall.result.defects[i].confidence = minDefectConfidence_

\* the enabled filters of the pipeline, in list order
EnabledFilters == SelectSeq(filters, LAMBDA f : f.enabled)

\* a recorded filter->process call that gave a usable image
StageSucceeded(a) == a.st = "ok" /\ Len(a.output.px) > 0

\* C9: a Pipeline::process or processWithIntermediates call on a non-empty
\* image applies the currently enabled filters in list order, each once and
\* each to the output of the enabled filter before it (the first to the
\* input), skipping the disabled ones; it stops only at a stage that fails,
\* and when none fails all of them ran and the final image is the last
\* output.
C9_EnabledFiltersInOrder ==
    (pipeOut.op # "none" /\ Len(pipeOut.input.px) > 0) =>
        LET app == pipeOut.res.applied
            en == EnabledFilters
        IN  /\ Len(app) <= Len(en)
            /\ \A j \in 1..Len(app) :
                  /\ app[j].id = en[j].id
                  /\ app[j].input = IF j = 1 THEN pipeOut.input ELSE app[j - 1].output
                  /\ LET r == Filter_process(en[j], app[j].input, 0)
                     IN  app[j].st = r.st /\ app[j].output.px = r.img.px
                  /\ j < Len(app) => StageSucceeded(app[j])
            /\ Len(app) < Len(en) => Len(app) > 0 /\ ~StageSucceeded(app[Len(app)])
            /\ (\A j \in 1..Len(app) : StageSucceeded(app[j])) =>
                  /\ Len(app) = Len(en)
                  /\ pipeOut.res.finalImage.px =
                        IF Len(app) = 0 THEN pipeOut.input.px ELSE app[Len(app)].output.px

\* C9 without the stop at a failing stage: every call on a non-empty image
\* applies exactly the enabled filters, each once, in list order, each on
\* the output of the one before it.
C9_AllEnabledApplied ==
    (pipeOut.op # "none" /\ Len(pipeOut.input.px) > 0) =>
        /\ Len(pipeOut.res.applied) = Len(EnabledFilters)
        /\ \A j \in 1..Len(EnabledFilters) :
              /\ pipeOut.res.applied[j].id = EnabledFilters[j].id
              /\ pipeOut.res.applied[j].input =
                    IF j = 1 THEN pipeOut.input ELSE pipeOut.res.applied[j - 1].output

\* C9 witness: after adds, a removal and a setEnabled(false) the pipeline
\* holds filters 1, 3, 4 with 3 disabled, and a call ran 1 then 4 and
\* changed the image
C9_Witness ==
    /\ pipeOut.op # "none"
    /\ Len(filters) = 3
    /\ filters[1].id = 1 /\ filters[2].id = 3 /\ filters[3].id = 4
    /\ ~filters[2].enabled
    /\ Len(pipeOut.res.applied) = 2
    /\ pipeOut.res.applied[1].id = 1 /\ pipeOut.res.applied[2].id = 4
    /\ pipeOut.res.applied[2].input = pipeOut.res.applied[1].output
    /\ StageSucceeded(pipeOut.res.applied[2])
    /\ pipeOut.res.finalImage.px # pipeOut.input.px

\* C10: with at least one filter and all filters disabled, process and
\* processWithIntermediates on a non-empty image return an image with the
\* input's pixels in a buffer of its own.
C10_AllDisabledReturnsCopy ==
    (/\ pipeOut.op # "none"
     /\ Len(pipeOut.input.px) > 0
     /\ Len(filters) > 0
     /\ \A i \in 1..Len(filters) : ~filters[i].enabled) =>
        /\ pipeOut.res.finalImage.px = pipeOut.input.px
        /\ pipeOut.res.finalImage.ch = pipeOut.input.ch
        /\ pipeOut.res.finalImage.buf # pipeOut.input.buf

\* the filter object of the controller's pipeline that a logged stage call ran
StageFilter(a) == CHOOSE f \in {filters[i] : i \in 1..Len(filters)} : f.id = a.id

\* the stage calls of the last inspect() that failed (empty output or throw)
FailedStages == {j \in 1..Len(lastCall.stages) : ~StageSucceeded(lastCall.stages[j])}

\* C11: when a pipeline stage gave an empty image or threw during the last
\* inspect() on a non-empty image, it was the last stage run, no detector
\* was run, the result has success = false and its errorMessage carries the
\* name of that stage.
C11_StageFailureAborts ==
    (lastCall.called /\ Len(lastCall.image.px) > 0 /\ FailedStages # {}) =>
        /\ FailedStages = {Len(lastCall.stages)}
        /\ lastCall.ran = <<>>
        /\ ~lastCall.result.success
        /\ \E k \in 1..Len(lastCall.result.errorMessage) :
              lastCall.result.errorMessage[k] =
                  getName(StageFilter(lastCall.stages[Len(lastCall.stages)]))

\* C11 witness: the first of two enabled stages failed on a non-empty image
\* while an enabled detector was registered
C11_Witness ==
    /\ lastCall.called /\ Len(lastCall.image.px) > 0
    /\ Len(EnabledFilters) = 2
    /\ Len(lastCall.stages) = 1 /\ ~StageSucceeded(lastCall.stages[1])
    /\ \E i \in 1..Len(detectors) : detectors[i].enabled

\* C12: when a stage of a Pipeline::process or processWithIntermediates
\* call failed, the image returned is the unmodified upstream image: the
\* output of the last successful stage, or the input when the first enabled
\* stage failed; it is not empty.
C12_FailureReturnsUpstream ==
    (/\ pipeOut.op # "none"
     /\ Len(pipeOut.res.applied) > 0
     /\ ~StageSucceeded(pipeOut.res.applied[Len(pipeOut.res.applied)])) =>
        LET k == Len(pipeOut.res.applied) - 1
            upstream == IF k = 0 THEN pipeOut.input ELSE pipeOut.res.applied[k].output
        IN  /\ Len(pipeOut.res.finalImage.px) > 0
            /\ pipeOut.res.finalImage.px = upstream.px
            /\ pipeOut.res.finalImage.ch = upstream.ch

\* C13: removeFilter(i) on n filters returns false and leaves the filters
\* as they were when i >= n; when i < n it returns true and the filters
\* after it are those before it without the one at position i, the others
\* in their previous order.
C13_RemoveFilter ==
    [][pipeOut'.op = "removeFilter" =>
          IF pipeOut'.index >= Len(filters)
          THEN ~pipeOut'.ret /\ filters' = filters
          ELSE /\ pipeOut'.ret
               /\ Len(filters') = Len(filters) - 1
               /\ \A j \in 1..Len(filters') :
                     filters'[j] = filters[IF j <= pipeOut'.index THEN j ELSE j + 1]]_vars

\* C13 witness: removeFilter(1) took the middle one of filters 1, 2, 3
C13_Witness ==
    /\ pipeOut.op = "removeFilter" /\ pipeOut.ret /\ pipeOut.index = 1
    /\ Len(filters) = 2 /\ filters[1].id = 1 /\ filters[2].id = 3

\* the kernel size a setParameters call carried as an integer, 1 if none
CarriedKernelSize ==
    IF "kernel_size" \in DOMAIN lastOp.params /\ lastOp.params["kernel_size"].t = "int"
    THEN lastOp.params["kernel_size"].v ELSE 1

\* C14: a GaussianFilter's kernel size is always odd and at least 1, and a
\* setKernelSize or setParameters call that carried an even or non-positive
\* kernel size left the kernel size as it was.
C14_KernelSizeOdd ==
    /\ obj.kernelSize >= 1 /\ obj.kernelSize % 2 = 1
    /\ (lastOp.op = "setKernelSize" /\ (lastOp.arg <= 0 \/ lastOp.arg % 2 = 0)) =>
          obj.kernelSize = lastOp.before.kernelSize
    /\ (lastOp.op = "setParameters" /\ (CarriedKernelSize <= 0 \/ CarriedKernelSize % 2 = 0)) =>
          obj.kernelSize = lastOp.before.kernelSize

\* C14 witness: a filter whose kernel size had been set to 7 was given
\* kernel_size 4 together with a valid sigma, and only the sigma changed
C14_Witness ==
    /\ lastOp.op = "setParameters"
    /\ DOMAIN lastOp.params = {"kernel_size", "sigma"}
    /\ lastOp.params["kernel_size"] = JsonInt(4)
    /\ lastOp.before.kernelSize = 7 /\ obj.kernelSize = 7
    /\ obj.sigma # lastOp.before.sigma

\* the field a setParameters key configures
KeyField(key) ==
    CASE key = "kernel_size" -> "kernelSize"
      [] key = "sigma" -> "sigma"
      [] key = "threshold" -> "threshold"
      [] key = "max_value" -> "maxValue"

\* the value is well formed for the key: of the right JSON type and in range
WellFormed(key, j) ==
    /\ j.t = "int"
    /\ CASE key = "kernel_size" -> j.v > 0 /\ j.v % 2 = 1
         [] key = "sigma" -> j.v >= 0
         [] key \in {"threshold", "max_value"} -> j.v >= 0 /\ j.v <= 255

MalformedKeys == {k \in DOMAIN lastOp.params : ~WellFormed(k, lastOp.params[k])}

\* C15: a setParameters call with one malformed key next to valid keys
\* raises no error, leaves the offending key's parameter at its previous
\* value and applies every other key, wherever the offending key stands.
C15_MalformedKeyIgnored ==
    (/\ lastOp.op = "setParameters"
     /\ Cardinality(MalformedKeys) = 1
     /\ Cardinality(DOMAIN lastOp.params) > 1) =>
        /\ ~lastOp.raised
        /\ \A k \in DOMAIN lastOp.params :
              obj[KeyField(k)] = IF k \in MalformedKeys THEN lastOp.before[KeyField(k)]
                                 ELSE lastOp.params[k].v

\* what a caller sees of an object: its fields, with the pixels of its
\* reference image and of its debug image
View(o, h) ==
    IF o = NoObject THEN <<o>>
    ELSE <<o, IF o.referenceImage = NoBuffer THEN <<>> ELSE h[o.referenceImage],
              IF o.debugImage = NoBuffer THEN <<>> ELSE h[o.debugImage]>>

C17_CloneEqualsOriginal ==
    lastOp.op = "clone" =>
        /\ copy.kind = obj.kind
        /\ Detector_getParameters(copy) = Detector_getParameters(obj)
        /\ copy.enabled = obj.enabled
        /\ copy.confidenceThreshold = obj.confidenceThreshold
        /\ DetectorBase_hasReferenceImage(copy, heap) = DetectorBase_hasReferenceImage(obj, heap)

\* C18: every detect() call adds the number of defects it returned to
\* total_detections and its elapsed time to total_processing_time_ms, also
\* when it returns no defects for an empty image, a disabled detector, a
\* missing reference image or a caught error.
C18_DetectUpdatesStatistics ==
    lastOp.op = "detect" =>
        /\ Target(lastOp.target).totalDetections
              = lastOp.before.totalDetections + Len(lastOp.defects)
        /\ Target(lastOp.target).totalTime = lastOp.before.totalTime + lastOp.arg

\* C19: Defect -> JSON -> Defect keeps type, bbox, confidence, center, area
\* and circularity and the number of contour points, and a list keeps its
\* length and order.
C19_JsonRoundTrip ==
    restored # NotRestored =>
        /\ restored.st = "ok"
        /\ Len(restored.defects) = Len(defectList)
        /\ \A i \in 1..Len(defectList) :
              /\ restored.defects[i].type = defectList[i].type
              /\ restored.defects[i].bbox = defectList[i].bbox
              /\ restored.defects[i].confidence = defectList[i].confidence
              /\ restored.defects[i].center = defectList[i].center
              /\ restored.defects[i].area = defectList[i].area
              /\ restored.defects[i].circularity = defectList[i].circularity
              /\ Len(restored.defects[i].contour) = Len(defectList[i].contour)

\* C19 witness: a list of a Deformation with two contour points and a
\* Stain with none came back
C19_Witness ==
    /\ restored.st = "ok"
    /\ Len(defectList) = 2
    /\ defectList[1].type = Deformation /\ Len(defectList[1].contour) = 2
    /\ defectList[2].type = Stain /\ Len(defectList[2].contour) = 0
    /\ restored.defects[1].center = [x |-> 12, y |-> -4]

\* C20: on a trigger session the client receives, for the requests it sent
\* in order, one complete response line each, in that order and never
\* interleaved: the wire is always a prefix of the responses 1, 2, ...
\* written piece by piece.
C20_OneResponsePerRequestInOrder ==
    \A i \in 1..Len(wire) :
        wire[i] = Piece(((i - 1) \div Parts) + 1, ((i - 1) % Parts) + 1, TRUE)

\* C21: a trigger session that has waited for a message longer than the
\* timeout is eventually closed and no longer counted as an active
\* connection.
C21_IdleSessionClosed ==
    \A s \in SessionIds :
        (sessions[s].open /\ sessions[s].idle > TimeoutTicks)
            ~> ~sessions[s].open

\* a session has outlived the timeout with the listener running
C21_TimedOutSessionOpen ==
    /\ handler.running_
    /\ \E s \in SessionIds : sessions[s].open /\ sessions[s].idle > TimeoutTicks

\* C26: activeConnections_ equals the number of sessions currently open and
\* never exceeds maxConnections_; a connection rejected for the maximum
\* found activeConnections_ at the maximum and got no session.
C26_ActiveConnectionsExact ==
    /\ handler.activeConnections_ = Cardinality(OpenSessions)
    /\ handler.activeConnections_ <= MaxConnections
    /\ handler.rejected => Cardinality(OpenSessions) = MaxConnections

\* C27: as long as resetStatistics has not been called, totalRequests_ equals
\* successfulRequests_ + failedRequests_; a request is counted successful
\* only when it was answered 200, and one answered 400, 404 or 500 is
\* counted failed.
C27_RequestCountersAgree ==
    /\ ~api.wasReset => api.totalRequests_ = api.successfulRequests_ + api.failedRequests_
    /\ restOut.counted = "successful" => restOut.status = 200
    /\ restOut.status \in {400, 404, 500} => restOut.counted = "failed"

\* C28: the history never holds more than MAX_HISTORY_SIZE records; it holds
\* the newest records made by successful inspections, oldest first, so the
\* one evicted is the oldest and a failed request adds none; and
\* getInspectionHistory(limit) returns the min(limit, size) newest, newest
\* first.
C28_HistoryBoundedFifo ==
    /\ Len(inspectionHistory_) = Min2(api.clock, MAX_HISTORY_SIZE)
    /\ \A i \in 1..Len(inspectionHistory_) :
          inspectionHistory_[i].id = api.clock - Len(inspectionHistory_) + i
    /\ restOut.request \in {"getInspectionHistory", "inspections"} =>
          /\ Len(restOut.records) = Min2(restOut.limit, Len(inspectionHistory_))
          /\ \A i \in 1..Len(restOut.records) :
                restOut.records[i].id = api.clock + 1 - i

\* one more inspection than the history holds succeeded and one request
\* failed, the first record was evicted, and a call with limit 1 returned the
\* newest of those kept
C28_Witness ==
    /\ ~api.wasReset
    /\ api.clock = MAX_HISTORY_SIZE + 1
    /\ api.totalRequests_ = api.clock + 1
    /\ Len(inspectionHistory_) = MAX_HISTORY_SIZE
    /\ inspectionHistory_[1].id = 2
    /\ restOut.request = "getInspectionHistory"
    /\ restOut.limit = 1
    /\ restOut.records[1].id = api.clock

\* C29: when start() was called on a server that was not running and
\* returned false, neither listener is running and isRunning() is false;
\* when it returned true, every enabled listener is running and isRunning()
\* is true.
C29_StartAllOrNothing ==
    (server.call.op = "start" /\ ~server.call.wasRunning) =>
        IF server.call.returned
          THEN /\ server.running_
               /\ server.triggerHandlerEnabled_ => server.triggerHandler_ = "running"
               /\ server.apiServerEnabled_ => server.apiServer_ = "running"
          ELSE /\ ~server.running_
               /\ server.triggerHandler_ # "running"
               /\ server.apiServer_ # "running"

\* start() returned false because the REST listener could not start after the
\* trigger listener had been started
C29_Witness ==
    /\ server.call = ServerCall("start", FALSE, FALSE)
    /\ server.triggerHandlerEnabled_ /\ server.apiServerEnabled_
    /\ server.triggerHandler_ = "stopped"
    /\ server.apiServer_ = "stopped"

\* C25: a result inspect() returned with success = false has isOK = false.
C25_FailureIsNeverOK ==
    (lastCall.called /\ ~lastCall.result.success) => ~lastCall.result.isOK

\* C30: after setJudgmentCriteria(maxDefects, minConfidence),
\* maxAllowedDefects_ is maxDefects and minDefectConfidence_ is minConfidence
\* when that lies in [0, 1] and what it was before otherwise; it is always
\* within [0, 1].
C30_CriteriaValidated ==
    /\ minDefectConfidence_ >= 0 /\ minDefectConfidence_ <= 100
    /\ fnIn # <<>> =>
          /\ maxAllowedDefects_ = fnIn[1]
          /\ minDefectConfidence_ = IF fnIn[2] >= 0 /\ fnIn[2] <= 100
                                      THEN fnIn[2] ELSE fnOut[2]

\* an out-of-range confidence came with a new maximum after the confidence
\* had been set to 1.0: the maximum was taken, the confidence kept
C30_Witness ==
    /\ fnIn = <<MaxCriteria, 110>>
    /\ fnOut = <<0, 100>>
    /\ maxAllowedDefects_ = MaxCriteria
    /\ minDefectConfidence_ = 100

\* the step is an inspect() call
C22_InspectStep ==
    /\ lastCall'.called
    /\ lastCall' # lastCall \/ totalInspections_' # totalInspections_

\* the detectors the call invoked
C22_Invoked == {lastCall'.ran[k] : k \in 1..Len(lastCall'.ran)}

\* C22: inspect() never invokes a detector whose enabled flag is false and
\* leaves its statistics and debug state as they were, while every enabled
\* detector is invoked by a call that succeeds and none but an enabled one
\* by any call, in registration order.
C22_DisabledDetectorSkipped ==
    [][C22_InspectStep =>
          /\ \A i \in 1..Len(detectors) :
                ~detectors[i].enabled => (i \notin C22_Invoked /\ detectors'[i] = detectors[i])
          /\ lastCall'.result.success =>
                \A i \in 1..Len(detectors) : detectors[i].enabled => i \in C22_Invoked
          /\ \A k \in 1..(Len(lastCall'.ran) - 1) : lastCall'.ran[k] < lastCall'.ran[k + 1]
          /\ Len(lastCall'.returned) = Len(lastCall'.ran) \/ ~lastCall'.result.success
          /\ lastCall'.result.success =>
                Len(lastCall'.result.defects) <= Len(Flatten(lastCall'.returned))]_vars

\* two inspections were made; the second detector was invoked by the second
\* only, after being switched on again, and returned defects to it, while
\* the first detector was invoked by both
C22_Witness ==
    /\ totalInspections_ = 2
    /\ lastCall.result.success
    /\ lastCall.ran = <<1, 2>>
    /\ Len(lastCall.returned[2]) > 0
    /\ detectors[2].totalTime = lastCall.result.detectionTime
    /\ 3 * detectors[1].totalTime = totalProcessingTime_

\* C23: when detect() returns in all three modes, what Combined mode returns
\* is what Edge mode returns followed by what Adaptive mode returns, nothing
\* left out: its length is the sum of both.
C23_CombinedIsEdgeThenAdaptive ==
    (fnOut # <<>> /\ \A mode \in DOMAIN fnOut : fnOut[mode].st = "ok") =>
        /\ Len(fnOut["Combined"].defects) =
              Len(fnOut["Edge"].defects) + Len(fnOut["Adaptive"].defects)
        /\ \A k \in 1..Len(fnOut["Edge"].defects) :
              fnOut["Combined"].defects[k] = fnOut["Edge"].defects[k]
        /\ \A k \in 1..Len(fnOut["Adaptive"].defects) :
              fnOut["Combined"].defects[Len(fnOut["Edge"].defects) + k] =
                  fnOut["Adaptive"].defects[k]

\* both passes found the same region and Combined mode reported it twice
C23_Witness ==
    /\ fnOut # <<>>
    /\ Len(fnOut["Edge"].defects) = 1
    /\ fnOut["Adaptive"].defects = fnOut["Edge"].defects
    /\ Len(fnOut["Combined"].defects) = 2
    /\ fnOut["Combined"].defects[1] = fnOut["Combined"].defects[2]

\* the curvature of the edge handed to classifyEdge
C24_Curvature ==
    IF fnIn.r.h >= fnIn.r.w THEN (fnIn.r.h * 100) \div fnIn.r.w - 100
    ELSE 100 - (fnIn.r.h * 100) \div fnIn.r.w

\* C24: classifyEdge gives Scratch for length > 100 and straightness > 0.9,
\* else Scratch for length < 50 and gaps > 0, else Deformation for an edge
\* on the boundary with straightness < 0.5 or curvature > 0.3 or
\* straightness > 0.8, and Unknown otherwise; never anything else.
C24_ClassifyEdgeRules ==
    fnOut # <<>> =>
        /\ fnOut[1] \in {"Scratch", "Deformation", "Unknown"}
        /\ fnOut[1] =
              IF fnIn.r.length > 100 /\ fnIn.r.straight > 90 THEN "Scratch"
              ELSE IF fnIn.r.length < 50 /\ fnIn.r.gaps > 0 THEN "Scratch"
              ELSE IF fnIn.isOnBoundary /\ (\/ fnIn.r.straight < 50
                                            \/ C24_Curvature > 30
                                            \/ fnIn.r.straight > 80)
                   THEN "Deformation"
              ELSE "Unknown"

\* a long straight edge on the boundary was classified Scratch, the first
\* rule winning over the boundary rule it also matches
C24_Witness ==
    /\ fnOut = <<"Scratch">>
    /\ fnIn.isOnBoundary
    /\ fnIn.r.length > 100 /\ fnIn.r.straight > 90

====
